---- MODULE Spec2Model ----
(***************************************************************************)
(* Model of the current-affairs ingestion pipeline: URL ledger, page       *)
(* scraper, relational and document stores, per-URL workers and the        *)
(* practice-set assembler.                                                 *)
(*                                                                         *)
(* Ids of relational rows are positions in the table (AUTO_INCREMENT), 0   *)
(* stands for Python's None / a falsy id.                                  *)
(***************************************************************************)
EXTENDS Integers, Sequences, FiniteSets, TLC

\* ------------------------------------------------------------------ bounds
NumDays == 2          \* calendar days (identifiers) in the model
MaxQ == 1             \* question blocks on one page of the pipeline runs
MaxRuns == 2          \* consecutive ingestion runs over the same list
MaxFaults == 1        \* external failures (network, store, translator) per behaviour
MaxCalls == 3         \* direct calls issued by the caller of the ledger / assembler

\* --------------------------------------------------------- program constants
SECTION_ID == 8
max_retries == 3

None == 0

Days == 1..NumDays
\* two consecutive days share a month: days 1,2 -> month 1, day 3 -> month 2
MonthOf(d) == (d + 1) \div 2
Months == {MonthOf(d) : d \in Days}

\* A URL string: the date component and whether it ends with "/".
URLs == [day : Days, slash : BOOLEAN]
\* f"https://www.indiabix.com/current-affairs/{formatted_date}/"
generated_url(d) == [day |-> d, slash |-> TRUE]
\* url[:-1] if url.endswith('/')
strip_slash(u) == [u EXCEPT !.slash = FALSE]

VARIABLES
    \* relational store
    skills, topics, questions, practice_sets, psq,
    \* document store
    qindex, ledger,
    \* environment: store schema, source pages, calendar, failures so far
    uniq, pages, today, faults,
    \* ingestion run
    variant, run, mpc, urlList, toScrape, wk, success_count, fetched, rowsAtStart,
    \* the last direct call and its outcome, number of direct calls
    call, ncalls,
    \* one page handed to the parser, and what the parser returned
    pPage, pOut, pDone,
    \* the arguments of one call of a pure function, and what it returned
    fnArgs, fnRes,
    \* db_utils' global connection, the connection objects, the question threads
    mysql_connection, conns, qw,
    \* two callers of mark_url_as_processed
    mk

storeVars == <<skills, topics, questions, practice_sets, psq, qindex>>
envVars == <<uniq, pages, today>>
runVars == <<variant, run, mpc, urlList, toScrape, wk, success_count, fetched, rowsAtStart>>
callVars == <<call, ncalls>>
parseVars == <<pPage, pOut, pDone>>
pureVars == <<fnArgs, fnRes>>
threadVars == <<mysql_connection, conns, qw, mk>>
vars == <<storeVars, ledger, envVars, faults, runVars, callVars, parseVars, pureVars, threadVars>>

\* ------------------------------------------------------------------ ledger
\* scraped_urls_collection.count_documents({"url": url})
count_documents(led, url) == Cardinality({i \in 1..Len(led) : led[i] = url})

is_url_already_scraped(led, url) == count_documents(led, url) > 0

ledger_check_silent(led, url, up) ==
    [raised |-> FALSE, val |-> up /\ is_url_already_scraped(led, url)]

\* is_url_already_scraped called with the ledger store reachable (up) or not: the
\* function has no try/except, the driver's exception leaves the call
ledger_check(led, url, up) ==
    [raised |-> ~up, val |-> up /\ is_url_already_scraped(led, url)]

mark_url_as_processed_noguard(led, url) == Append(led, url)

mark_url_as_processed_latest_only(led, url) == <<url>>

mark_url_as_processed(led, url) ==
    IF count_documents(led, url) = 0 THEN Append(led, url) ELSE led

\* ----------------------------------------------------------------- scraper
MaxOpts == 3
QTexts == {"none", "", "Q"}        \* no .bix-td-qtxt element, empty text, a text
Markers == {"none", "", "a", "b", "c", "d", "e", "A", "x"}  \* "none": no .jq-hdnakqb element
Blocks == [qtxt : QTexts, nopts : 0..MaxOpts, marker : Markers]

\* answer_map.get(answer_value.lower(), -1)
answer_map(v) ==
    CASE v \in {"a", "A"} -> 0
      [] v = "b" -> 1
      [] v = "c" -> 2
      [] v = "d" -> 3
      [] v = "e" -> 4
      [] OTHER -> -1

correct_option_index(b) == IF b.marker = "none" THEN -1 ELSE answer_map(b.marker)

\* the "Skip if we don't have all required data" test, negated
block_kept(b) ==
    /\ b.qtxt \notin {"none", ""}
    /\ b.nopts > 0
    /\ correct_option_index(b) # -1

question_data(b, url) ==
    [question |-> b.qtxt, options |-> b.nopts,
     correct_option_index |-> correct_option_index(b),
     explanation |-> "E", source_url |-> strip_slash(url)]

RECURSIVE parse_blocks(_, _)
parse_blocks(divs, url) ==
    IF divs = <<>> THEN <<>>
    ELSE LET rest == parse_blocks(Tail(divs), url)
         IN  IF block_kept(Head(divs))
             THEN <<question_data(Head(divs), url)>> \o rest
             ELSE rest

\* status 200 and the page body; any other response or a request error gives []
scrape_current_affairs_content(page, url, httpOk) ==
    IF httpOk THEN parse_blocks(page, url) ELSE <<>>

\* ------------------------------------------------------------------ stores
Min(S) == CHOOSE x \in S : \A y \in S : x <= y

\* SELECT id FROM skills WHERE name = %s AND section_id = %s AND deleted_at IS NULL
skill_rows(tbl, name) ==
    {i \in 1..Len(tbl) : tbl[i].name = name /\ tbl[i].section_id = SECTION_ID}

\* SELECT id FROM topics WHERE name = %s AND skill_id = %s AND deleted_at IS NULL
topic_rows(tbl, name, sid) ==
    {i \in 1..Len(tbl) : tbl[i].name = name /\ tbl[i].skill_id = sid}

\* get_or_create_topic with the store answering: [id, topics']
get_or_create_topic(tbl, name, sid) ==
    IF topic_rows(tbl, name, sid) # {}
    THEN [id |-> Min(topic_rows(tbl, name, sid)), tbl |-> tbl]
    ELSE [id |-> Len(tbl) + 1, tbl |-> Append(tbl, [name |-> name, skill_id |-> sid])]

\* get_or_create_skill with the store answering and no other caller in between
get_or_create_skill(tbl, name) ==
    IF skill_rows(tbl, name) # {}
    THEN [id |-> Min(skill_rows(tbl, name)), tbl |-> tbl]
    ELSE [id |-> Len(tbl) + 1, tbl |-> Append(tbl, [name |-> name, section_id |-> SECTION_ID])]

\* the key insert_question reads from the scraped record
AnswerKey == "correct_answer_index"

insert_question_mirror_always(qs, qi, qd, sid, tid, day, rn, t, out) ==
    IF out = "noconn" \/ AnswerKey \notin DOMAIN qd
    THEN [ret |-> "none", id |-> None, qs |-> qs, qi |-> qi]
    ELSE LET row == [skill_id |-> sid, topic_id |-> tid,
                     correct_answer |-> qd[AnswerKey], day |-> day, run |-> rn]
             qs2 == IF out = "sqlerr" THEN qs ELSE Append(qs, row)
         IN  [ret |-> IF out = "ok" THEN "id" ELSE "none", id |-> None, qs |-> qs2,
              qi |-> Append(qi, [question_id |-> Len(qs) + 1, skill_id |-> sid,
                                 topic_id |-> tid, created_at |-> t,
                                 correct_answer_index |-> qd[AnswerKey]])]

\* insert_question: out is what the stores do: "noconn" (no connection, or
\* connection.cursor() fails, before the record is read), "sqlerr" (the INSERT
\* fails), "mongoerr" (insert_one raises after the commit), "ok";
\* day and rn are bookkeeping on the row (which identifier and run produced it)
insert_question(qs, qi, qd, sid, tid, day, rn, t, out) ==
    IF out = "noconn" THEN [ret |-> "none", id |-> None, qs |-> qs, qi |-> qi]
    ELSE IF AnswerKey \notin DOMAIN qd
         THEN [ret |-> "raise", id |-> None, qs |-> qs, qi |-> qi]    \* KeyError
    ELSE IF out = "sqlerr" THEN [ret |-> "none", id |-> None, qs |-> qs, qi |-> qi]
    ELSE LET row == [skill_id |-> sid, topic_id |-> tid,
                     correct_answer |-> qd[AnswerKey], day |-> day, run |-> rn]
             qs2 == Append(qs, row)
         IN  IF out = "mongoerr" THEN [ret |-> "raise", id |-> None, qs |-> qs2, qi |-> qi]
             ELSE [ret |-> "id", id |-> Len(qs2), qs |-> qs2,
                   qi |-> Append(qi, [question_id |-> Len(qs2), skill_id |-> sid,
                                      topic_id |-> tid, created_at |-> t,
                                      correct_answer_index |-> qd[AnswerKey]])]

Outcomes == {"ok", "noconn", "sqlerr", "mongoerr"}
Scripts == [1..max_retries -> Outcomes]

\* the "while retry_count < max_retries" loop of process_question from attempt k on:
\* [ok, qs, qi, used] where used counts the store failures that happened
RECURSIVE question_attempts(_, _, _, _, _, _, _, _, _, _)
question_attempts(qs, qi, qd, sid, tid, day, rn, t, script, k) ==
    IF k > max_retries THEN [ok |-> FALSE, qs |-> qs, qi |-> qi, used |-> 0]
    ELSE LET r == insert_question(qs, qi, qd, sid, tid, day, rn, t, script[k])
             f == IF script[k] # "ok" THEN 1 ELSE 0
         IN  IF r.ret = "id"
             THEN [ok |-> TRUE, qs |-> r.qs, qi |-> r.qi, used |-> f]
             ELSE LET n == question_attempts(r.qs, r.qi, qd, sid, tid, day, rn, t, script, k + 1)
                  IN  [n EXCEPT !.used = @ + f]

process_question_untranslated(qs, qi, qd, sid, tid, day, rn, t, trOk, script) ==
    question_attempts(qs, qi, qd, sid, tid, day, rn, t, script, 1)

\* process_question: translate, then the insert loop
process_question(qs, qi, qd, sid, tid, day, rn, t, trOk, script) ==
    IF ~trOk THEN [ok |-> FALSE, qs |-> qs, qi |-> qi, used |-> 1]
    ELSE question_attempts(qs, qi, qd, sid, tid, day, rn, t, script, 1)

\* ------------------------------------------------------------ practice sets
WeekDays == 7

\* SELECT id FROM skills WHERE name = %s AND deleted_at IS NULL, fetchone
get_skill_id_by_name(tbl, name) ==
    LET r == {i \in 1..Len(tbl) : tbl[i].name = name}
    IN  IF r = {} THEN None ELSE Min(r)

\* SELECT id FROM topics WHERE name = %s AND deleted_at IS NULL, fetchone
get_topic_id_by_name(tbl, name) ==
    LET r == {i \in 1..Len(tbl) : tbl[i].name = name}
    IN  IF r = {} THEN None ELSE Min(r)

\* SELECT id FROM skills WHERE deleted_at IS NULL ORDER BY created_at DESC LIMIT 1
most_recent_skill(tbl) == Len(tbl)

Ids(entries) == [i \in 1..Len(entries) |-> entries[i].question_id]

get_questions_for_topic(qi, tid) ==
    LET T(e) == e.topic_id = tid IN Ids(SelectSeq(qi, T))

get_questions_for_skill(qi, sid) ==
    LET T(e) == e.skill_id = sid IN Ids(SelectSeq(qi, T))

get_questions_for_date_range(qi, start, end) ==
    LET T(e) == start <= e.created_at /\ e.created_at <= end IN Ids(SelectSeq(qi, T))

RECURSIVE link_rows_stop_at_failure(_, _, _, _, _)
link_rows_stop_at_failure(links, psid, qids, fails, k) ==
    IF k > Len(qids) \/ k \in fails THEN links
    ELSE link_rows_stop_at_failure(Append(links, [practice_set_id |-> psid, question_id |-> qids[k]]),
                                   psid, qids, fails, k + 1)

\* the cursor loop of add_questions_to_practice_set; the INSERTs at the positions
\* in fails raise mysql.connector.Error
RECURSIVE link_rows(_, _, _, _, _)
link_rows(links, psid, qids, fails, k) ==
    IF k > Len(qids) THEN links
    ELSE link_rows(IF k \in fails THEN links
                   ELSE Append(links, [practice_set_id |-> psid, question_id |-> qids[k]]),
                   psid, qids, fails, k + 1)

\* return success_count == len(question_ids)
links_complete(qids, fails) == (1..Len(qids)) \cap fails = {}

no_questions_never(qids) == FALSE

\* if total_questions == 0
no_questions(qids) == Len(qids) = 0

Failed(ps, links, n) ==
    [ok |-> FALSE, ps |-> ps, links |-> links, nq |-> n, qids |-> <<>>, failed |-> {}]

\* generate_random_code("set_"): a random string, taken to differ from the codes
\* of the rows already stored
generate_practice_set_code(ps) == Len(ps) + 1

create_and_link_once(ps, links, title, sid, qids, psOk, fails) ==
    IF ~psOk THEN Failed(ps, links, Len(qids))
    ELSE IF \E i \in 1..Len(ps) : ps[i].title = title
    THEN [ok |-> TRUE, ps |-> ps, links |-> links, nq |-> Len(qids), qids |-> qids, failed |-> {}]
    ELSE [ok |-> links_complete(qids, fails),
          ps |-> Append(ps, [title |-> title, code |-> generate_practice_set_code(ps),
                             skill_id |-> sid, total_questions |-> Len(qids)]),
          links |-> link_rows(links, Len(ps) + 1, qids, fails, 1),
          nq |-> Len(qids), qids |-> qids, failed |-> (1..Len(qids)) \cap fails]

\* create_practice_set followed by add_questions_to_practice_set, the common end
\* of the four create_*_practice_set functions
create_and_link(ps, links, title, sid, qids, psOk, fails) ==
    IF ~psOk THEN Failed(ps, links, Len(qids))
    ELSE [ok |-> links_complete(qids, fails),
          ps |-> Append(ps, [title |-> title, code |-> generate_practice_set_code(ps),
                             skill_id |-> sid, total_questions |-> Len(qids)]),
          links |-> link_rows(links, Len(ps) + 1, qids, fails, 1),
          nq |-> Len(qids), qids |-> qids, failed |-> (1..Len(qids)) \cap fails]

create_daily_practice_set(sk, tp, qi, ps, links, d, psOk, fails) ==
    LET sid == get_skill_id_by_name(sk, MonthOf(d))
        tid == get_topic_id_by_name(tp, d)
        qids == get_questions_for_topic(qi, tid)
    IN  IF sid = None \/ tid = None THEN Failed(ps, links, -1)
        ELSE IF no_questions(qids) THEN Failed(ps, links, 0)
        ELSE create_and_link(ps, links, [kind |-> "daily", a |-> d, b |-> d], sid, qids, psOk, fails)

create_monthly_practice_set(sk, qi, ps, links, m, psOk, fails) ==
    LET sid == get_skill_id_by_name(sk, m)
        qids == get_questions_for_skill(qi, sid)
    IN  IF sid = None THEN Failed(ps, links, -1)
        ELSE IF no_questions(qids) THEN Failed(ps, links, 0)
        ELSE create_and_link(ps, links, [kind |-> "monthly", a |-> m, b |-> m], sid, qids, psOk, fails)

create_weekly_practice_set(sk, qi, ps, links, t, psOk, fails) ==
    LET qids == get_questions_for_date_range(qi, t - WeekDays, t)
        sid == most_recent_skill(sk)
    IN  IF no_questions(qids) THEN Failed(ps, links, 0)
        ELSE IF sid = None THEN Failed(ps, links, Len(qids))
        ELSE create_and_link(ps, links, [kind |-> "weekly", a |-> t - WeekDays, b |-> t],
                             sid, qids, psOk, fails)

create_date_range_practice_set(sk, qi, ps, links, start, end, psOk, fails) ==
    LET qids == get_questions_for_date_range(qi, start, end)
        byName == get_skill_id_by_name(sk, MonthOf(start))
        sid == IF byName # None THEN byName ELSE most_recent_skill(sk)
    IN  IF no_questions(qids) THEN Failed(ps, links, 0)
        ELSE IF sid = None THEN Failed(ps, links, Len(qids))
        ELSE create_and_link(ps, links, [kind |-> "range", a |-> start, b |-> end],
                             sid, qids, psOk, fails)

NoPureCall == fnArgs = [op |-> "none"] /\ fnRes = [done |-> TRUE]

NoThreads == mysql_connection = None /\ conns = <<>> /\ qw = <<>> /\ mk = <<>>

EmptyStores ==
    /\ skills = <<>> /\ topics = <<>> /\ questions = <<>>
    /\ practice_sets = <<>> /\ psq = <<>> /\ qindex = <<>>

\* --------------------------------------------------------- ingestion runs
\* "wrapper": python process_url_wrapper.py <url>
Variants == {"custom", "date_range", "automated", "main", "wrapper"}

GoodBlock == [qtxt |-> "Q", nopts |-> 3, marker |-> "a"]
Page(n) == [i \in 1..n |-> GoodBlock]
PagePool == {Page(n) : n \in 0..MaxQ}

AscSeq(S) == CHOOSE q \in [1..Cardinality(S) -> S] : \A i, j \in 1..Cardinality(S) : i < j => q[i] < q[j]
DaysOfMonth(m) == {d \in Days : MonthOf(d) = m}
Queued(d) == \E i \in 1..Len(toScrape) : toScrape[i] = d
Pos(d) == CHOOSE i \in 1..Len(toScrape) : toScrape[i] = d

IdleWorker ==
    [pc |-> "idle", url |-> generated_url(1), retry |-> 0, skill_try |-> 1,
     skill_id |-> None, topic_id |-> None, qs |-> <<>>, pend |-> {}, succ |-> 0,
     result |-> FALSE, rets |-> {}, exc |-> FALSE, lfail |-> FALSE, netfail |-> FALSE]

RowCounts ==
    [skills |-> Len(skills), topics |-> Len(topics), questions |-> Len(questions),
     qindex |-> Len(qindex), ledger |-> Len(ledger)]

\* the identifier lists the four entry points derive
ListsOf(v, t) ==
    CASE v = "custom" -> {AscSeq(DaysOfMonth(m)) : m \in Months} \cup {<<d>> : d \in Days}
      [] v = "automated" -> {AscSeq(DaysOfMonth(MonthOf(t)))}
      [] v = "main" -> {AscSeq({d \in DaysOfMonth(MonthOf(t)) : d <= t})}
      [] v = "date_range" -> {AscSeq({d \in Days : a <= d /\ d <= b}) : a \in 1..t, b \in 1..t} \ {<<>>}
      [] v = "wrapper" -> {<<d>> : d \in Days}

InitRun ==
    /\ EmptyStores
    /\ ledger = <<>>
    /\ uniq \in BOOLEAN
    /\ pages \in [Days -> PagePool]
    /\ today \in Days
    /\ faults = 0
    /\ variant \in Variants
    /\ urlList \in ListsOf(variant, today)
    /\ run = 1
    /\ mpc = "start"
    /\ toScrape = <<>>
    /\ wk = [d \in Days |-> IdleWorker]
    /\ success_count = 0
    /\ fetched = {}
    /\ rowsAtStart = [skills |-> 0, topics |-> 0, questions |-> 0, qindex |-> 0, ledger |-> 0]
    /\ call = [op |-> "none"]
    /\ ncalls = 0
    /\ pPage = <<>> /\ pOut = <<>> /\ pDone = TRUE
    /\ NoThreads
    /\ NoPureCall

\* an external call succeeds (ok) or fails; failures are counted
Env(ok) ==
    /\ ok \/ faults < MaxFaults
    /\ faults' = faults + (IF ok THEN 0 ELSE 1)

\* the URL string the entry point checks, submits and marks for day d
UrlOf(d) ==
    IF variant \in {"automated", "wrapper"} THEN strip_slash(generated_url(d)) ELSE generated_url(d)

RECURSIVE FilterNew(_, _)
FilterNew(lst, led) ==
    IF lst = <<>> THEN <<>>
    ELSE IF is_url_already_scraped(led, UrlOf(Head(lst)))
         THEN FilterNew(Tail(lst), led)
         ELSE <<Head(lst)>> \o FilterNew(Tail(lst), led)

\* main(): ledger filter, exit when nothing is new, connect, submit the URLs;
\* fk is the external call that fails, if any. The wrapper's command line submits
\* its URL without a ledger filter.
MainStart ==
    /\ mpc = "start"
    /\ \E fk \in {"none", "ledger", "conn"} :
        /\ Env(fk = "none")
        /\ fk = "conn" => variant \notin {"date_range", "wrapper"}
        /\ fk = "ledger" => variant # "wrapper"
        /\ LET chk == ledger_check(ledger, UrlOf(urlList[1]), fk # "ledger")
               new == IF chk.raised \/ (variant = "main" /\ fk = "conn") THEN <<>>
                      ELSE IF variant = "wrapper" \/ fk = "ledger" THEN urlList
                      ELSE FilterNew(urlList, ledger)
               idle == [d \in Days |->
                          [IdleWorker EXCEPT !.lfail = fk = "ledger" /\ \E i \in 1..Len(urlList) : urlList[i] = d]]
           IN  /\ toScrape' = new
               /\ IF new = <<>> \/ chk.raised \/ fk = "conn"
                  THEN /\ mpc' = "done"
                       /\ wk' = idle
                  ELSE /\ mpc' = "batch"
                       /\ wk' = [d \in Days |->
                                   IF \E i \in 1..Len(new) : new[i] = d
                                   THEN [idle[d] EXCEPT !.pc = "start", !.url = UrlOf(d)]
                                   ELSE idle[d]]
    /\ success_count' = 0
    /\ fetched' = {}
    /\ rowsAtStart' = RowCounts
    /\ UNCHANGED <<storeVars, ledger, envVars, variant, run, urlList, callVars, parseVars, threadVars, pureVars>>

Parallel == variant \in {"custom", "automated"}

\* the sequential entry points take up the next URL when the previous one is finished
CanStep(d) ==
    /\ mpc = "batch"
    /\ Queued(d)
    /\ Parallel \/ \A e \in Days : (Queued(e) /\ Pos(e) < Pos(d)) => wk[e].pc = "done"

Return(w, res) == [w EXCEPT !.pc = "ret", !.result = res]

future_date_processed(d) == FALSE

\* process_url_safely, "if url_date > current_date: return False", before its retry loop
future_date_skipped(d) ==
    variant \in {"automated", "wrapper"} /\ wk[d].retry = 0 /\ d > today

\* process_url_safely's URL check and future-date skip (automated run), then
\* process_url up to the connection check
Begin(d) ==
    /\ CanStep(d) /\ variant # "main"
    /\ wk[d].pc = "start"
    /\ \E ok \in BOOLEAN :
        /\ Env(ok)
        /\ wk' = [wk EXCEPT ![d] =
                    IF future_date_skipped(d)
                    THEN Return(@, FALSE)
                    ELSE IF ~ok THEN Return(@, FALSE)
                    ELSE [@ EXCEPT !.pc = "skill_sel", !.skill_try = 1]]
    /\ UNCHANGED <<storeVars, ledger, envVars, variant, run, mpc, urlList, toScrape,
                   success_count, fetched, rowsAtStart, callVars, parseVars, threadVars, pureVars>>

\* process_url after get_or_create_skill returned None: one more try, then give up
SkillFailed(w) ==
    IF w.skill_try = 1 THEN [w EXCEPT !.pc = "skill_sel", !.skill_try = 2, !.rets = @ \cup {None}]
    ELSE [Return(w, FALSE) EXCEPT !.rets = @ \cup {None}]

\* get_or_create_skill, the SELECT
SkillSelect(d) ==
    /\ CanStep(d) /\ variant # "main"
    /\ wk[d].pc = "skill_sel"
    /\ \E ok \in BOOLEAN :
        /\ Env(ok)
        /\ LET found == skill_rows(skills, MonthOf(d))
           IN  wk' = [wk EXCEPT ![d] =
                        IF ~ok THEN SkillFailed(@)
                        ELSE IF found # {}
                        THEN [@ EXCEPT !.pc = "topic", !.skill_id = Min(found),
                                       !.rets = @ \cup {Min(found)}]
                        ELSE [@ EXCEPT !.pc = "skill_ins"]]
    /\ UNCHANGED <<storeVars, ledger, envVars, variant, run, mpc, urlList, toScrape,
                   success_count, fetched, rowsAtStart, callVars, parseVars, threadVars, pureVars>>

\* get_or_create_skill, the INSERT and commit
SkillInsert(d) ==
    /\ CanStep(d) /\ variant # "main"
    /\ wk[d].pc = "skill_ins"
    /\ \E ok \in BOOLEAN :
        /\ Env(ok)
        /\ IF ok /\ ~(uniq /\ skill_rows(skills, MonthOf(d)) # {})
           THEN /\ skills' = Append(skills, [name |-> MonthOf(d), section_id |-> SECTION_ID])
                /\ wk' = [wk EXCEPT ![d] = [@ EXCEPT !.pc = "topic", !.skill_id = Len(skills) + 1,
                                                       !.rets = @ \cup {Len(skills) + 1}]]
           ELSE /\ skills' = skills
                /\ wk' = [wk EXCEPT ![d] = SkillFailed(@)]
    /\ UNCHANGED <<topics, questions, practice_sets, psq, qindex, ledger, envVars, variant,
                   run, mpc, urlList, toScrape, success_count, fetched, rowsAtStart, callVars, parseVars, threadVars, pureVars>>

\* get_or_create_topic, retried once by process_url when it returns None
Topic(d) ==
    /\ CanStep(d) /\ variant # "main"
    /\ wk[d].pc = "topic"
    /\ \E ok1, ok2 \in BOOLEAN :
        /\ ok1 => ok2
        /\ faults + (IF ok1 THEN 0 ELSE 1) + (IF ok2 THEN 0 ELSE 1) <= MaxFaults
        /\ faults' = faults + (IF ok1 THEN 0 ELSE 1) + (IF ok2 THEN 0 ELSE 1)
        /\ LET r == get_or_create_topic(topics, d, wk[d].skill_id)
           IN  IF ok2
               THEN /\ topics' = r.tbl
                    /\ wk' = [wk EXCEPT ![d] = [@ EXCEPT !.pc = "fetch", !.topic_id = r.id]]
               ELSE /\ topics' = topics
                    /\ wk' = [wk EXCEPT ![d] = Return(@, FALSE)]
    /\ UNCHANGED <<skills, questions, practice_sets, psq, qindex, ledger, envVars, variant,
                   run, mpc, urlList, toScrape, success_count, fetched, rowsAtStart, callVars, parseVars, threadVars, pureVars>>

\* scrape_current_affairs_content and the "No questions found" return
Fetch(d) ==
    /\ CanStep(d) /\ variant # "main"
    /\ wk[d].pc = "fetch"
    /\ \E ok \in BOOLEAN :
        /\ Env(ok)
        /\ LET qd == scrape_current_affairs_content(pages[d], wk[d].url, ok)
           IN  wk' = [wk EXCEPT ![d] =
                        IF qd = <<>> THEN [Return(@, FALSE) EXCEPT !.netfail = ~ok]
                        ELSE [@ EXCEPT !.pc = "questions", !.qs = qd, !.netfail = FALSE,
                                       !.pend = 1..Len(qd), !.succ = 0]]
    /\ fetched' = fetched \cup {d}
    /\ UNCHANGED <<storeVars, ledger, envVars, variant, run, mpc, urlList, toScrape,
                   success_count, rowsAtStart, callVars, parseVars, threadVars, pureVars>>

\* one question worker of process_url's inner pool
ProcessQuestion(d) ==
    /\ CanStep(d) /\ variant # "main"
    /\ wk[d].pc = "questions"
    /\ \E i \in wk[d].pend, trOk \in BOOLEAN, script \in Scripts :
        /\ Cardinality({k \in 1..max_retries : script[k] # "ok"}) <= MaxFaults - faults
        /\ ~trOk => script = [k \in 1..max_retries |-> "ok"]
        /\ LET r == process_question(questions, qindex, wk[d].qs[i], wk[d].skill_id,
                                     wk[d].topic_id, d, run, today, trOk, script)
           IN  /\ faults + r.used <= MaxFaults
               /\ faults' = faults + r.used
               /\ questions' = r.qs
               /\ qindex' = r.qi
               /\ wk' = [wk EXCEPT ![d] = [@ EXCEPT !.pend = @ \ {i},
                                                   !.succ = @ + (IF r.ok THEN 1 ELSE 0)]]
    /\ UNCHANGED <<skills, topics, practice_sets, psq, ledger, envVars, variant,
                   run, mpc, urlList, toScrape, success_count, fetched, rowsAtStart, callVars, parseVars, threadVars, pureVars>>

process_url_result_any(succ) == succ >= 0

\* return success_count > 0
process_url_result(succ) == succ > 0

\* mark_url_as_processed(url) at the end of process_url; an exception restarts
\* process_url while retry_count < max_retries
Mark(d) ==
    /\ CanStep(d) /\ variant # "main"
    /\ wk[d].pc = "questions" /\ wk[d].pend = {}
    /\ \E ok \in BOOLEAN :
        /\ Env(ok)
        /\ IF ok
           THEN /\ ledger' = mark_url_as_processed(ledger, wk[d].url)
                /\ wk' = [wk EXCEPT ![d] = Return(@, process_url_result(@.succ))]
           ELSE /\ ledger' = ledger
                /\ wk' = [wk EXCEPT ![d] =
                            IF @.retry < max_retries
                            THEN [@ EXCEPT !.pc = "start", !.retry = @ + 1, !.exc = TRUE]
                            ELSE [Return(@, FALSE) EXCEPT !.exc = TRUE]]
    /\ UNCHANGED <<storeVars, envVars, variant, run, mpc, urlList, toScrape,
                   success_count, fetched, rowsAtStart, callVars, parseVars, threadVars, pureVars>>

abort_after_exception(m) == "done"

\* "except Exception as e: print(...)" inside the loop over the URLs: the loop goes on
continue_after_exception(m) == m

\* the as_completed loop of process_urls_parallel / process_urls_safely, and the
\* "if success" of the sequential date-range loop
Collect(d) ==
    /\ CanStep(d) /\ variant # "main"
    /\ wk[d].pc = "ret"
    /\ \E ok \in BOOLEAN :
        /\ Env(ok)
        /\ ~ok => (Parallel /\ wk[d].result)
        /\ success_count' = success_count + (IF wk[d].result THEN 1 ELSE 0)
        /\ ledger' = IF Parallel /\ wk[d].result /\ ok
                     THEN mark_url_as_processed(ledger, wk[d].url)
                     ELSE ledger
        /\ mpc' = IF ok THEN mpc ELSE continue_after_exception(mpc)
        /\ wk' = [wk EXCEPT ![d] = [@ EXCEPT !.pc = "done", !.exc = @ \/ ~ok]]
    /\ UNCHANGED <<storeVars, envVars, variant, run, urlList, toScrape,
                   fetched, rowsAtStart, callVars, parseVars, threadVars, pureVars>>

QOutcomes == Outcomes \cup {"trfail"}

\* main.py's "for i, question_data in enumerate(questions, 1)" from question k on;
\* an exception inside insert_question leaves the loop (raised)
RECURSIVE main_questions(_, _, _, _, _, _, _, _, _, _)
main_questions(qs, qi, lst, k, sid, tid, d, rn, t, qscript) ==
    IF k > Len(lst) THEN [raised |-> FALSE, qs |-> qs, qi |-> qi]
    ELSE IF qscript[k] = "trfail"
         THEN main_questions(qs, qi, lst, k + 1, sid, tid, d, rn, t, qscript)
    ELSE LET r == insert_question(qs, qi, lst[k], sid, tid, d, rn, t, qscript[k])
         IN  IF r.ret = "raise" THEN [raised |-> TRUE, qs |-> r.qs, qi |-> r.qi]
             ELSE main_questions(r.qs, r.qi, lst, k + 1, sid, tid, d, rn, t, qscript)

MainFaultPoints == {"ledger", "conn", "skill", "topic", "http", "mark"}

\* main.py: one iteration of "for index, url in enumerate(all_urls, 1)", the try
\* block and its except included
MainIter(d) ==
    /\ CanStep(d) /\ variant = "main"
    /\ wk[d].pc = "start"
    /\ \E f \in SUBSET MainFaultPoints :
        /\ Cardinality(f) <= MaxFaults - faults
        /\ LET url == wk[d].url
               chk == ledger_check(ledger, url, "ledger" \notin f)
               early == chk.raised \/ chk.val \/ "conn" \in f
               sk == get_or_create_skill(skills, MonthOf(d))
               skOk == ~early /\ "skill" \notin f
               tp == get_or_create_topic(topics, d, sk.id)
               tpOk == skOk /\ "topic" \notin f
               qd == scrape_current_affairs_content(pages[d], url, "http" \notin f)
               marked == IF "mark" \in f THEN ledger ELSE mark_url_as_processed(ledger, url)
           IN  \E qscript \in [1..(IF tpOk THEN Len(qd) ELSE 0) -> QOutcomes] :
                 LET nq == Cardinality({k \in DOMAIN qscript : qscript[k] # "ok"})
                     mq == main_questions(questions, qindex, qd, 1, sk.id, tp.id, d, run, today, qscript)
                     raised == \/ chk.raised
                               \/ tpOk /\ qd # <<>> /\ mq.raised
                               \/ tpOk /\ (qd = <<>> \/ ~mq.raised) /\ "mark" \in f
                 IN  /\ Cardinality(f) + nq <= MaxFaults - faults
                     /\ mpc' = IF raised THEN continue_after_exception(mpc) ELSE mpc
                     /\ wk' = [wk EXCEPT ![d] = [@ EXCEPT !.pc = "done", !.exc = raised,
                                                         !.lfail = "ledger" \in f,
                                                         !.netfail = tpOk /\ "http" \in f,
                                                         !.qs = IF tpOk THEN qd ELSE <<>>]]
                     /\ faults' = faults + Cardinality(f) + nq
                     /\ skills' = IF skOk THEN sk.tbl ELSE skills
                     /\ topics' = IF tpOk THEN tp.tbl ELSE topics
                     /\ fetched' = IF tpOk THEN fetched \cup {d} ELSE fetched
                     /\ questions' = IF tpOk /\ qd # <<>> THEN mq.qs ELSE questions
                     /\ qindex' = IF tpOk /\ qd # <<>> THEN mq.qi ELSE qindex
                     /\ ledger' = IF tpOk /\ (qd = <<>> \/ ~mq.raised) THEN marked ELSE ledger
    /\ UNCHANGED <<practice_sets, psq, envVars, variant, run, urlList, toScrape,
                   success_count, rowsAtStart, callVars, parseVars, threadVars, pureVars>>

AllDone == \A d \in Days : Queued(d) => wk[d].pc = "done"

\* the batch returns its count; the automated run then assembles the month's
\* practice set "if success_count > 0"
RunDone ==
    /\ mpc = "batch" /\ AllDone
    /\ mpc' = "done"
    /\ \E psOk \in BOOLEAN, fails \in SUBSET (1..Len(qindex)) :
        /\ Env(psOk)
        /\ ~psOk => (variant = "automated" /\ success_count > 0)
        /\ LET r == IF variant = "automated" /\ success_count > 0
                    THEN create_monthly_practice_set(skills, qindex, practice_sets, psq,
                                                     MonthOf(today), psOk, fails)
                    ELSE Failed(practice_sets, psq, -1)
           IN  /\ practice_sets' = r.ps
               /\ psq' = r.links
    /\ UNCHANGED <<skills, topics, questions, qindex, ledger, envVars, variant, run, urlList,
                   toScrape, wk, success_count, fetched, rowsAtStart, callVars, parseVars, threadVars, pureVars>>

\* practice_set_creator: create_practice_set_for_month, run by hand between runs
AssembleMonth(m) ==
    /\ mpc = "done"
    /\ ncalls < MaxCalls
    /\ ncalls' = ncalls + 1
    /\ \E psOk \in BOOLEAN, fails \in SUBSET (1..Len(qindex)) :
        /\ Env(psOk)
        /\ LET r == create_monthly_practice_set(skills, qindex, practice_sets, psq,
                                                m, psOk, fails)
           IN  /\ practice_sets' = r.ps
               /\ psq' = r.links
               /\ call' = [op |-> "monthly", ok |-> r.ok, nq |-> r.nq, m |-> m,
                           qids |-> r.qids, failed |-> r.failed,
                           prePs |-> Len(practice_sets), prePsq |-> Len(psq)]
    /\ UNCHANGED <<skills, topics, questions, qindex, ledger, envVars, runVars, parseVars, threadVars, pureVars>>

\* the same entry point is started again with the same arguments
NextRun ==
    /\ mpc = "done" /\ run < MaxRuns
    /\ run' = run + 1
    /\ mpc' = "start"
    /\ UNCHANGED <<storeVars, ledger, envVars, faults, variant, urlList, toScrape, wk,
                   success_count, fetched, rowsAtStart, callVars, parseVars, threadVars, pureVars>>

Next ==
    \/ MainStart
    \/ \E d \in Days : Begin(d)
    \/ \E d \in Days : SkillSelect(d)
    \/ \E d \in Days : SkillInsert(d)
    \/ \E d \in Days : Topic(d)
    \/ \E d \in Days : Fetch(d)
    \/ \E d \in Days : ProcessQuestion(d)
    \/ \E d \in Days : Mark(d)
    \/ \E d \in Days : Collect(d)
    \/ \E d \in Days : MainIter(d)
    \/ RunDone
    \/ \E m \in Months : AssembleMonth(m)
    \/ NextRun

Spec == InitRun /\ [][Next]_vars

\* ------------------------- a sequential caller of the ledger and the assembler
MaxClock == 9

IdleRun ==
    /\ uniq = FALSE /\ pages = [d \in Days |-> <<>>] /\ faults = 0
    /\ variant = "custom" /\ run = 1 /\ mpc = "done" /\ urlList = <<>> /\ toScrape = <<>>
    /\ wk = [d \in Days |-> IdleWorker] /\ success_count = 0 /\ fetched = {}
    /\ rowsAtStart = [skills |-> 0, topics |-> 0, questions |-> 0, qindex |-> 0, ledger |-> 0]

InitApi ==
    /\ EmptyStores
    /\ ledger = <<>>
    /\ IdleRun
    /\ today = 1
    /\ call = [op |-> "none"]
    /\ ncalls = 0
    /\ pPage = <<>> /\ pOut = <<>> /\ pDone = TRUE
    /\ NoThreads
    /\ NoPureCall

Called ==
    /\ ncalls < MaxCalls
    /\ ncalls' = ncalls + 1
    /\ UNCHANGED <<uniq, pages, faults, runVars, parseVars, threadVars, pureVars>>

\* mark_url_as_processed(u)
CallMark(u) ==
    /\ Called
    /\ ledger' = mark_url_as_processed(ledger, u)
    /\ call' = [op |-> "mark", url |-> u, pre |-> ledger]
    /\ UNCHANGED <<storeVars, today>>

\* a record as insert_question reads it
keyed_record(k) ==
    [question |-> "Q", options |-> 3, correct_answer_index |-> k, explanation |-> "E"]

\* get_or_create_skill, get_or_create_topic and insert_question for one question of day d
CallInsert(d, out) ==
    /\ Called
    /\ LET sk == get_or_create_skill(skills, MonthOf(d))
           tp == get_or_create_topic(topics, d, sk.id)
           r == insert_question(questions, qindex, keyed_record(1), sk.id, tp.id, d, 0, today, out)
       IN  /\ skills' = sk.tbl
           /\ topics' = tp.tbl
           /\ questions' = r.qs
           /\ qindex' = r.qi
           /\ call' = [op |-> "insert", day |-> d, ret |-> r.ret, out |-> out,
                       preQ |-> Len(questions), preQi |-> Len(qindex)]
    /\ UNCHANGED <<practice_sets, psq, ledger, today>>

\* process_question for one question of day d, handed a record that carries the
\* key insert_question reads
CallProcess(d, trOk, script) ==
    /\ Called
    /\ ~trOk => script = [k \in 1..max_retries |-> "ok"]
    /\ LET sk == get_or_create_skill(skills, MonthOf(d))
           tp == get_or_create_topic(topics, d, sk.id)
           r == process_question(questions, qindex, keyed_record(1), sk.id, tp.id, d, 0,
                                 today, trOk, script)
       IN  /\ skills' = sk.tbl
           /\ topics' = tp.tbl
           /\ questions' = r.qs
           /\ qindex' = r.qi
           /\ call' = [op |-> "process_question", day |-> d, ok |-> r.ok, trOk |-> trOk,
                       preQ |-> Len(questions), preQi |-> Len(qindex)]
    /\ UNCHANGED <<practice_sets, psq, ledger, today>>

RECURSIVE process_questions_own_ids(_, _, _, _, _, _, _, _, _, _)
process_questions_own_ids(qs, qi, lst, ord, sid, tid, day, t, outs, succ) ==
    IF ord = <<>> THEN [qs |-> qs, qi |-> qi, success_count |-> succ]
    ELSE LET k == Head(ord)
             r == process_question(qs, qi, lst[k], sid, k, day, 0, t, outs[k] # "trfail",
                                   [j \in 1..max_retries |->
                                       IF outs[k] = "trfail" THEN "ok" ELSE outs[k]])
         IN  process_questions_own_ids(r.qs, r.qi, lst, Tail(ord), sid, tid, day, t, outs,
                                       succ + (IF r.ok THEN 1 ELSE 0))

\* the question pool of process_url and its as_completed loop: the questions lst
\* are processed in the order ord; outs[k] is what happens to question k
\* ("trfail": translate_question_data returns None, otherwise what the stores do
\* on every attempt)
RECURSIVE process_questions(_, _, _, _, _, _, _, _, _, _)
process_questions(qs, qi, lst, ord, sid, tid, day, t, outs, succ) ==
    IF ord = <<>> THEN [qs |-> qs, qi |-> qi, success_count |-> succ]
    ELSE LET k == Head(ord)
             r == process_question(qs, qi, lst[k], sid, tid, day, 0, t, outs[k] # "trfail",
                                   [j \in 1..max_retries |->
                                       IF outs[k] = "trfail" THEN "ok" ELSE outs[k]])
         IN  process_questions(r.qs, r.qi, lst, Tail(ord), sid, tid, day, t, outs,
                               succ + (IF r.ok THEN 1 ELSE 0))

PageLen == 2
Orders == {o \in [1..PageLen -> 1..PageLen] : \A i, j \in 1..PageLen : o[i] = o[j] => i = j}

\* process_url from "Process questions in parallel" to the success count, for a
\* page of PageLen questions of day d whose records carry the key insert_question reads
CallQuestions(d, ord, outs) ==
    /\ Called
    /\ LET sk == get_or_create_skill(skills, MonthOf(d))
           tp == get_or_create_topic(topics, d, sk.id)
           r == process_questions(questions, qindex, [k \in 1..PageLen |-> keyed_record(k)],
                                  ord, sk.id, tp.id, d, today, outs, 0)
       IN  /\ skills' = sk.tbl
           /\ topics' = tp.tbl
           /\ questions' = r.qs
           /\ qindex' = r.qi
           /\ call' = [op |-> "questions", day |-> d, outs |-> outs,
                       success_count |-> r.success_count,
                       skill_id |-> sk.id, topic_id |-> tp.id,
                       nskills |-> Len(sk.tbl), ntopics |-> Len(tp.tbl),
                       preQ |-> Len(questions), preQi |-> Len(qindex)]
    /\ UNCHANGED <<practice_sets, psq, ledger, today>>

\* a caller of process_question and of process_url's question pool
NextQuestions ==
    \/ \E d \in Days, trOk \in BOOLEAN, script \in Scripts : CallProcess(d, trOk, script)
    \/ \E d \in Days, ord \in Orders, outs \in [1..PageLen -> QOutcomes] : CallQuestions(d, ord, outs)

SpecQuestions == InitApi /\ [][NextQuestions]_vars

\* main.py: the body of "for index, url in enumerate(all_urls, 1)" for a URL that is
\* not in the ledger and a page of PageLen records as insert_question reads them:
\* skill, topic, the question loop, mark_url_as_processed, and the try's except
CallMainUrl(d, qscript, markOk) ==
    /\ Called
    /\ ~is_url_already_scraped(ledger, generated_url(d))
    /\ LET sk == get_or_create_skill(skills, MonthOf(d))
           tp == get_or_create_topic(topics, d, sk.id)
           mq == main_questions(questions, qindex, [k \in 1..PageLen |-> keyed_record(k)],
                                1, sk.id, tp.id, d, 0, today, qscript)
       IN  /\ skills' = sk.tbl /\ topics' = tp.tbl /\ questions' = mq.qs /\ qindex' = mq.qi
           /\ ledger' = IF ~mq.raised /\ markOk
                        THEN mark_url_as_processed(ledger, generated_url(d))
                        ELSE ledger
           /\ call' = [op |-> "main_url", day |-> d, raised |-> mq.raised \/ ~markOk,
                       preQ |-> Len(questions), preQi |-> Len(qindex)]
    /\ UNCHANGED <<practice_sets, psq, today>>

NextMainUrl ==
    \E d \in Days, qscript \in [1..PageLen -> QOutcomes], markOk \in BOOLEAN :
        CallMainUrl(d, qscript, markOk)

SpecMainUrl == InitApi /\ [][NextMainUrl]_vars

\* time passes
Tick ==
    /\ Called
    /\ \E t \in (today + 1)..MaxClock : today' = t
    /\ call' = [op |-> "tick"]
    /\ UNCHANGED <<storeVars, ledger>>

Assembled(r, kind) ==
    /\ practice_sets' = r.ps
    /\ psq' = r.links
    /\ call' = [op |-> kind, ok |-> r.ok, nq |-> r.nq, qids |-> r.qids, failed |-> r.failed,
                prePs |-> Len(practice_sets), prePsq |-> Len(psq)]
    /\ UNCHANGED <<skills, topics, questions, qindex, ledger, today>>

CallDaily(d) ==
    /\ Called
    /\ \E psOk \in BOOLEAN, fails \in SUBSET (1..Len(qindex)) :
        Assembled(create_daily_practice_set(skills, topics, qindex, practice_sets, psq,
                                            d, psOk, fails), "daily")

CallMonthly(m) ==
    /\ Called
    /\ \E psOk \in BOOLEAN, fails \in SUBSET (1..Len(qindex)) :
        LET r == create_monthly_practice_set(skills, qindex, practice_sets, psq, m, psOk, fails)
        IN  /\ practice_sets' = r.ps
            /\ psq' = r.links
            /\ call' = [op |-> "monthly", ok |-> r.ok, nq |-> r.nq, qids |-> r.qids,
                        failed |-> r.failed, m |-> m, psOk |-> psOk,
                        prePs |-> Len(practice_sets), prePsq |-> Len(psq)]
    /\ UNCHANGED <<skills, topics, questions, qindex, ledger, today>>

CallWeekly ==
    /\ Called
    /\ \E psOk \in BOOLEAN, fails \in SUBSET (1..Len(qindex)) :
        Assembled(create_weekly_practice_set(skills, qindex, practice_sets, psq,
                                             today, psOk, fails), "weekly")

CallRange(a, b) ==
    /\ Called
    /\ a <= b
    /\ \E psOk \in BOOLEAN, fails \in SUBSET (1..Len(qindex)) :
        Assembled(create_date_range_practice_set(skills, qindex, practice_sets, psq,
                                                 a, b, psOk, fails), "range")

NextApi ==
    \/ \E u \in URLs : CallMark(u)
    \/ \E d \in Days, out \in {"ok", "sqlerr", "mongoerr"} : CallInsert(d, out)
    \/ Tick
    \/ \E d \in Days : CallDaily(d)
    \/ \E m \in Months : CallMonthly(m)
    \/ CallWeekly
    \/ \E a, b \in 1..MaxClock : CallRange(a, b)

SpecApi == InitApi /\ [][NextApi]_vars

\* ------------------------------------------------------- the parser on a page
MaxBlocks == 2

InitParse ==
    /\ EmptyStores
    /\ ledger = <<>>
    /\ IdleRun
    /\ today = 1
    /\ call = [op |-> "none"]
    /\ ncalls = 0
    /\ pPage \in UNION {[1..n -> Blocks] : n \in 0..MaxBlocks}
    /\ pOut = <<>>
    /\ pDone = FALSE
    /\ NoThreads
    /\ NoPureCall

Scrape ==
    /\ ~pDone
    /\ \E httpOk \in BOOLEAN :
        pOut' = scrape_current_affairs_content(pPage, generated_url(1), httpOk)
    /\ pDone' = TRUE
    /\ UNCHANGED <<storeVars, ledger, envVars, faults, runVars, callVars, pPage, pureVars, threadVars>>

NextParse == Scrape

SpecParse == InitParse /\ [][NextParse]_vars

\* ------------------------------------- URL generation, dates and translation
\* f"{year}": the decimal digits of a natural number, no padding
RECURSIVE Digits(_)
Digits(n) == IF n < 10 THEN <<n>> ELSE Append(Digits(n \div 10), n % 10)

\* f"{month:02d}"
Pad2(n) == IF n < 10 THEN <<0, n>> ELSE Digits(n)

RECURSIVE Num(_)
Num(ds) == IF ds = <<>> THEN 0 ELSE 10 * Num(SubSeq(ds, 1, Len(ds) - 1)) + ds[Len(ds)]

\* the Gregorian calendar as datetime knows it
CalendarDays(y, m) ==
    IF m = 2
    THEN (IF y % 400 = 0 THEN 29 ELSE IF y % 100 = 0 THEN 28 ELSE IF y % 4 = 0 THEN 29 ELSE 28)
    ELSE <<31, 28, 31, 30, 31, 30, 31, 31, 30, 31, 30, 31>>[m]

days_in_month_julian(year, month) ==
    IF month = 2 THEN (IF year % 4 = 0 THEN 29 ELSE 28)
    ELSE IF month \in {4, 6, 9, 11} THEN 30 ELSE 31

\* generate_url, the "Determine the number of days in the month" branch
days_in_month(year, month) ==
    IF month = 2
    THEN (IF (year % 4 = 0 /\ year % 100 # 0) \/ (year % 400 = 0) THEN 29 ELSE 28)
    ELSE IF month \in {4, 6, 9, 11} THEN 30 ELSE 31

\* f"https://www.indiabix.com/current-affairs/{year}-{month:02d}-{day:02d}/"
date_url(year, month, day) ==
    [y |-> Digits(year), m |-> Pad2(month), d |-> Pad2(day), slash |-> TRUE]

\* generate_url(year, month, day); day = None gives the whole month
generate_url(year, month, day) ==
    IF day # None THEN <<date_url(year, month, day)>>
    ELSE [k \in 1..days_in_month(year, month) |-> date_url(year, month, k)]

\* extract_date_from_url: the regex current-affairs/(\d{4})-(\d{2})-(\d{2}) and
\* strptime; the database date, or None
extract_date_from_url(u) ==
    IF /\ Len(u.y) = 4 /\ Len(u.m) = 2 /\ Len(u.d) = 2
       /\ Num(u.y) >= 1
       /\ Num(u.m) \in 1..12
       /\ Num(u.d) >= 1 /\ Num(u.d) <= CalendarDays(Num(u.y), Num(u.m))
    THEN [ok |-> TRUE, year |-> Num(u.y), month |-> Num(u.m), day |-> Num(u.d)]
    ELSE [ok |-> FALSE]

\* date.max.toordinal(): adding a day to date.max raises OverflowError
DATE_MAX == 3652059
RangeSpan == 3
Dates == (DATE_MAX - RangeSpan)..DATE_MAX

range_url(o) == [date |-> o, slash |-> TRUE]

\* the "while current_date <= end_date" loop
RECURSIVE range_loop(_, _, _)
range_loop(cur, end, urls) ==
    IF cur > end THEN [ret |-> "list", urls |-> urls]
    ELSE IF cur = DATE_MAX THEN [ret |-> "OverflowError", urls |-> <<>>]
    ELSE range_loop(cur + 1, end, Append(urls, range_url(cur)))

generate_urls_end_exclusive(start, end) == range_loop(start, end - 1, <<>>)

generate_urls_for_date_range(start, end) == range_loop(start, end, <<>>)

range_main_unchecked(start, end, t) ==
    generate_urls_for_date_range(start, IF end > t THEN t ELSE end)

\* date_range_scraper.main up to "all_urls = generate_urls_for_date_range(...)":
\* start > end exits with status 1, an end after today is cut to today
range_main(start, end, t) ==
    IF start > end THEN [ret |-> "exit_invalid_range", urls |-> <<>>]
    ELSE generate_urls_for_date_range(start, IF end > t THEN t ELSE end)

\* translate_to_gujarati: script[k] is what the k-th call of the translation service
\* does; "running" when the loop is still going after the last scripted call
MaxServiceCalls == 4
ServiceScripts == [1..MaxServiceCalls -> {"text", "empty", "raise"}]

RECURSIVE translate_loop(_, _, _, _)
translate_loop(script, retries, attempt, k) ==
    IF attempt >= retries THEN [ret |-> "original", calls |-> k - 1]
    ELSE IF k > Len(script) THEN [ret |-> "running", calls |-> k - 1]
    ELSE CASE script[k] = "text" -> [ret |-> "translated", calls |-> k]
           [] script[k] = "empty" -> translate_loop(script, retries, attempt, k + 1)
           [] OTHER -> translate_loop(script, retries, attempt + 1, k + 1)

translate_to_gujarati(script, retries) == translate_loop(script, retries, 0, 1)

\* get_connection: "retries = 3"
conn_retries == 3
MaxConnScript == 4
\* what one call of create_mysql_connection does: a connection, None (a mysql
\* error, caught inside), or another exception
ConnScripts == [1..MaxConnScript -> {"conn", "none", "raise"}]

RECURSIVE connect_loop_unguarded(_, _)
connect_loop_unguarded(script, i) ==
    IF i > conn_retries THEN [ret |-> "none", attempts |-> i - 1]
    ELSE IF script[i] = "conn" THEN [ret |-> "new", attempts |-> i]
    ELSE IF script[i] = "raise" THEN [ret |-> "raise", attempts |-> i]
    ELSE connect_loop_unguarded(script, i + 1)

\* "for i in range(retries)": both a None result and an exception lead to the
\* next attempt
RECURSIVE connect_loop(_, _)
connect_loop(script, i) ==
    IF i > conn_retries THEN [ret |-> "none", attempts |-> i - 1]
    ELSE IF script[i] = "conn" THEN [ret |-> "new", attempts |-> i]
    ELSE connect_loop(script, i + 1)

\* get_connection: has says whether the global connection is set, alive what its
\* is_connected() does ("yes", "no", "raise"); discarded: the global was reset
get_connection(has, alive, script) ==
    IF has /\ alive = "yes" THEN [ret |-> "existing", attempts |-> 0, discarded |-> FALSE]
    ELSE LET r == connect_loop(script, 1)
         IN  [ret |-> r.ret, attempts |-> r.attempts, discarded |-> has]

\* process_url's retry on an exception. script[k] is what the k-th execution of
\* the try block does: returns True (fetched and marked), returns False after an
\* empty fetch, or raises before or after the fetch; dateOk: the URL carries a date
AttemptScriptLen == max_retries + 2
AttemptScripts == [1..AttemptScriptLen -> {"true", "false", "raise_unfetched", "raise_fetched"}]

RECURSIVE process_url_one_more(_, _, _)
process_url_one_more(dateOk, script, retry_count) ==
    LET b == script[retry_count + 1]
        f == IF b = "raise_fetched" THEN 1 ELSE 0
    IN  IF ~dateOk THEN [ret |-> FALSE, attempts |-> 1, fetches |-> 0, marks |-> 0]
        ELSE IF b = "true" THEN [ret |-> TRUE, attempts |-> 1, fetches |-> 1, marks |-> 1]
        ELSE IF b = "false" THEN [ret |-> FALSE, attempts |-> 1, fetches |-> 1, marks |-> 0]
        ELSE IF retry_count <= max_retries
             THEN LET n == process_url_one_more(dateOk, script, retry_count + 1)
                  IN  [n EXCEPT !.attempts = @ + 1, !.fetches = @ + f]
             ELSE [ret |-> FALSE, attempts |-> 1, fetches |-> f, marks |-> 0]

RECURSIVE process_url(_, _, _)
process_url(dateOk, script, retry_count) ==
    LET b == script[retry_count + 1]
        f == IF b = "raise_fetched" THEN 1 ELSE 0
    IN  IF ~dateOk THEN [ret |-> FALSE, attempts |-> 1, fetches |-> 0, marks |-> 0]
        ELSE IF b = "true" THEN [ret |-> TRUE, attempts |-> 1, fetches |-> 1, marks |-> 1]
        ELSE IF b = "false" THEN [ret |-> FALSE, attempts |-> 1, fetches |-> 1, marks |-> 0]
        ELSE IF retry_count < max_retries
             THEN LET n == process_url(dateOk, script, retry_count + 1)
                  IN  [n EXCEPT !.attempts = @ + 1, !.fetches = @ + f]
             ELSE [ret |-> FALSE, attempts |-> 1, fetches |-> f, marks |-> 0]

\* retry_with_backoff: script[k] is what the k-th call of func does: returns a
\* result ("value"), returns its failure value None / False ("fail_value"), or raises
FuncScripts == [1..MaxServiceCalls -> {"value", "fail_value", "raise"}]

RECURSIVE retry_loop_on_failure(_, _, _)
retry_loop_on_failure(script, maxr, retry_count) ==
    IF retry_count >= maxr THEN [ret |-> "none", calls |-> retry_count]
    ELSE IF script[retry_count + 1] = "value" THEN [ret |-> "value", calls |-> retry_count + 1]
    ELSE retry_loop_on_failure(script, maxr, retry_count + 1)

\* "while retry_count < max_retries: try: return func() except Exception: ..."
RECURSIVE retry_loop(_, _, _)
retry_loop(script, maxr, retry_count) ==
    IF retry_count >= maxr THEN [ret |-> "none", calls |-> retry_count]
    ELSE IF script[retry_count + 1] # "raise"
         THEN [ret |-> script[retry_count + 1], calls |-> retry_count + 1]
    ELSE retry_loop(script, maxr, retry_count + 1)

retry_with_backoff(script, maxr) == retry_loop(script, maxr, 0)

\* ---- the correct-answer marker: written by insert_question, read by save_quiz_to_file
\* a str is the sequence of its characters
DigitChars == <<"0", "1", "2", "3", "4", "5", "6", "7", "8", "9">>

\* str(n) of a non-negative int, as the f-string formats it
str(n) == [i \in 1..Len(Digits(n)) |-> DigitChars[Digits(n)[i] + 1]]

\* correct_answer = f"i:{question_data['correct_answer_index']};"
correct_answer(k) == <<"i", ":">> \o str(k) \o <<";">>

IsNumeral(cs) == cs # <<>> /\ \A i \in 1..Len(cs) : \E d \in 1..10 : DigitChars[d] = cs[i]

\* int(cs) of a decimal numeral
int(cs) == Num([i \in 1..Len(cs) |-> (CHOOSE d \in 1..10 : DigitChars[d] = cs[i]) - 1])

\* correct_index as save_quiz_to_file extracts it from question['correct_answer']
correct_index(cs) ==
    IF Len(cs) >= 2 /\ cs[1] = "i" /\ cs[2] = ":" /\ cs[Len(cs)] = ";"
    THEN LET digits == SubSeq(cs, 3, Len(cs) - 1)                      \* cs[2:-1]
         IN  IF IsNumeral(digits) THEN int(digits) - 1 ELSE 0          \* ValueError
    ELSE 0

\* the answer values the parser keeps a block for
AnswerValues == {v \in Markers : answer_map(v) # -1}

\* one question from the page to the quiz file: the parser's index, the marker
\* insert_question stores for it, the index save_quiz_to_file exports
save_quiz(v) ==
    LET k == answer_map(v)
    IN  [index |-> k, correct_answer |-> correct_answer(k),
         correct_index |-> correct_index(correct_answer(k))]

Years == {999, 1900, 2000, 2023, 2024}
RetriesArgs == {0, 1, 3}

PureInputs ==
    [op : {"generate_url"}, year : Years, month : 1..12, day : {None, 15}]
    \cup [op : {"range"}, start : Dates, end : Dates]
    \cup [op : {"range_main"}, start : Dates, end : Dates, today : Dates]
    \cup [op : {"translate"}, script : ServiceScripts, retries : RetriesArgs]
    \cup [op : {"get_connection"}, has : BOOLEAN, alive : {"yes", "no", "raise"},
          script : ConnScripts]
    \cup [op : {"process_url"}, dateOk : BOOLEAN, script : AttemptScripts]
    \cup [op : {"retry_with_backoff"}, script : FuncScripts, max_retries : RetriesArgs]
    \cup [op : {"save_quiz"}, value : AnswerValues]

InitPure ==
    /\ EmptyStores
    /\ ledger = <<>>
    /\ IdleRun
    /\ today = 1
    /\ call = [op |-> "none"]
    /\ ncalls = 0
    /\ pPage = <<>> /\ pOut = <<>> /\ pDone = TRUE
    /\ NoThreads
    /\ fnArgs \in PureInputs
    /\ fnRes = [done |-> FALSE]

Returned(r) ==
    /\ ~fnRes.done
    /\ fnRes' = [done |-> TRUE, out |-> r]
    /\ UNCHANGED <<storeVars, ledger, envVars, faults, runVars, callVars, parseVars, threadVars, fnArgs>>

GenerateUrl ==
    /\ fnArgs.op = "generate_url"
    /\ Returned([urls |-> generate_url(fnArgs.year, fnArgs.month, fnArgs.day)])

GenerateRange ==
    /\ fnArgs.op = "range"
    /\ Returned(generate_urls_for_date_range(fnArgs.start, fnArgs.end))

RangeMain ==
    /\ fnArgs.op = "range_main"
    /\ Returned(range_main(fnArgs.start, fnArgs.end, fnArgs.today))

Translate ==
    /\ fnArgs.op = "translate"
    /\ Returned(translate_to_gujarati(fnArgs.script, fnArgs.retries))

GetConnection ==
    /\ fnArgs.op = "get_connection"
    /\ Returned(get_connection(fnArgs.has, fnArgs.alive, fnArgs.script))

ProcessUrl ==
    /\ fnArgs.op = "process_url"
    /\ Returned(process_url(fnArgs.dateOk, fnArgs.script, 0))

RetryWithBackoff ==
    /\ fnArgs.op = "retry_with_backoff"
    /\ Returned(retry_with_backoff(fnArgs.script, fnArgs.max_retries))

SaveQuiz ==
    /\ fnArgs.op = "save_quiz"
    /\ Returned(save_quiz(fnArgs.value))

NextPure ==
    \/ GenerateUrl \/ GenerateRange \/ RangeMain \/ Translate
    \/ GetConnection \/ ProcessUrl \/ RetryWithBackoff \/ SaveQuiz

SpecPure == InitPure /\ [][NextPure]_vars

\* ------------- a batch of URL workers, every external call free to fail each time
\* One worker thread per submitted URL (process_urls_parallel, process_urls_safely).
\* Every external call returns or raises; how often it fails is not bounded here,
\* only the code's own counters end the retries.
Submitted == [pc |-> "submitted", retry_count |-> 0, q_retry |-> 0, succ |-> 0, result |-> FALSE]

InitLive ==
    /\ EmptyStores
    /\ ledger = <<>>
    /\ uniq = FALSE /\ pages = [d \in Days |-> <<>>] /\ faults = 0
    /\ today \in Days
    /\ variant \in {"custom", "automated"}
    /\ run = 1 /\ mpc = "batch"
    /\ urlList = AscSeq(Days) /\ toScrape = AscSeq(Days)
    /\ wk = [d \in Days |-> Submitted]
    /\ success_count = 0 /\ fetched = {}
    /\ rowsAtStart = [skills |-> 0, topics |-> 0, questions |-> 0, qindex |-> 0, ledger |-> 0]
    /\ call = [op |-> "none"]
    /\ ncalls = 0
    /\ pPage = <<>> /\ pOut = <<>> /\ pDone = TRUE
    /\ NoThreads
    /\ NoPureCall

RunFrame == UNCHANGED <<envVars, faults, variant, run, urlList, toScrape,
                        fetched, rowsAtStart, callVars, parseVars, threadVars, pureVars>>

LiveFrame == UNCHANGED storeVars /\ RunFrame

returned(w, res) == [w EXCEPT !.pc = "returned", !.result = res]

process_url_except_same_count(w) ==
    IF w.retry_count < max_retries
    THEN [w EXCEPT !.pc = "process_url"]
    ELSE returned(w, FALSE)

\* process_url's "except Exception": process_url(url, new_conn, retry_count + 1)
\* while retry_count < max_retries, else return False
process_url_except(w) ==
    IF w.retry_count < max_retries
    THEN [w EXCEPT !.pc = "process_url", !.retry_count = @ + 1]
    ELSE returned(w, FALSE)

\* the worker starts: process_url_safely returns False for a date after today
\* (it is handed the batch's connection, so its own loop calls process_url once)
LiveBegin(d) ==
    /\ mpc = "batch" /\ wk[d].pc = "submitted"
    /\ wk' = [wk EXCEPT ![d] = IF variant = "automated" /\ d > today
                               THEN returned(@, FALSE)
                               ELSE [@ EXCEPT !.pc = "process_url"]]
    /\ UNCHANGED <<ledger, mpc, success_count>>
    /\ LiveFrame

\* process_url from its first line to the fetch: skill, topic and page
LiveFetch(d) ==
    /\ mpc = "batch" /\ wk[d].pc = "process_url"
    /\ \E out \in {"questions", "nothing", "raise"} :
        wk' = [wk EXCEPT ![d] =
                  CASE out = "questions" -> [@ EXCEPT !.pc = "process_question", !.q_retry = 0]
                    [] out = "nothing" -> returned(@, FALSE)
                    [] out = "raise" -> process_url_except(@)]
    /\ UNCHANGED <<ledger, mpc, success_count>>
    /\ LiveFrame

\* process_question: the translation, then one turn of "while retry_count < max_retries"
LiveQuestion(d) ==
    /\ mpc = "batch" /\ wk[d].pc = "process_question"
    /\ \E out \in {"trfail", "ok", "fail"} :
        wk' = [wk EXCEPT ![d] =
                  CASE out = "trfail" /\ @.q_retry = 0 -> [@ EXCEPT !.pc = "mark", !.succ = 0]
                    [] out = "ok" -> [@ EXCEPT !.pc = "mark", !.succ = 1]
                    [] OTHER -> IF @.q_retry + 1 >= max_retries
                                THEN [@ EXCEPT !.pc = "mark", !.succ = 0, !.q_retry = @ + 1]
                                ELSE [@ EXCEPT !.q_retry = @ + 1]]
    /\ UNCHANGED <<ledger, mpc, success_count>>
    /\ LiveFrame

\* process_url: mark_url_as_processed(url); return success_count > 0
LiveMark(d) ==
    /\ mpc = "batch" /\ wk[d].pc = "mark"
    /\ \E ok \in BOOLEAN :
        /\ ledger' = IF ok THEN mark_url_as_processed(ledger, UrlOf(d)) ELSE ledger
        /\ wk' = [wk EXCEPT ![d] = IF ok THEN returned(@, @.succ > 0)
                                   ELSE process_url_except(@)]
    /\ UNCHANGED <<mpc, success_count>>
    /\ LiveFrame

\* the batch's as_completed loop takes the worker's result
LiveCollect(d) ==
    /\ mpc = "batch" /\ wk[d].pc = "returned"
    /\ \E ok \in BOOLEAN :
        /\ success_count' = success_count + (IF wk[d].result THEN 1 ELSE 0)
        /\ ledger' = IF wk[d].result /\ ok THEN mark_url_as_processed(ledger, UrlOf(d))
                     ELSE ledger
    /\ wk' = [wk EXCEPT ![d].pc = "done"]
    /\ UNCHANGED mpc
    /\ LiveFrame

assemble_always(v, sc) == v = "automated"

\* automated_scraper's main after process_urls_safely: "if success_count > 0:"
assemble_month(v, sc) == v = "automated" /\ sc > 0

\* "return success_count" after the pool is left
LiveReturn ==
    /\ mpc = "batch" /\ \A d \in Days : Queued(d) => wk[d].pc = "done"
    /\ mpc' = IF assemble_month(variant, success_count) THEN "assemble" ELSE "done"
    /\ UNCHANGED <<ledger, wk, success_count>>
    /\ LiveFrame

\* retry_with_backoff(create_practice_set_wrapper): create_practice_set_for_month
LiveAssemble ==
    /\ mpc = "assemble"
    /\ \E psOk \in BOOLEAN, fails \in SUBSET (1..Len(qindex)) :
        LET r == create_monthly_practice_set(skills, qindex, practice_sets, psq,
                                             MonthOf(today), psOk, fails)
        IN  /\ practice_sets' = r.ps
            /\ psq' = r.links
    /\ mpc' = "done"
    /\ UNCHANGED <<skills, topics, questions, qindex, ledger, wk, success_count>>
    /\ RunFrame

URLWorker(d) == LiveBegin(d) \/ LiveFetch(d) \/ LiveQuestion(d) \/ LiveMark(d)

NextLive ==
    \/ \E d \in Days : LiveBegin(d)
    \/ \E d \in Days : LiveFetch(d)
    \/ \E d \in Days : LiveQuestion(d)
    \/ \E d \in Days : LiveMark(d)
    \/ \E d \in Days : LiveCollect(d)
    \/ LiveReturn
    \/ LiveAssemble

\* every pool thread is scheduled and every call it makes returns or raises; the
\* main thread's as_completed loop takes every finished future and then returns
LiveFairness ==
    /\ \A d \in Days : WF_vars(URLWorker(d))
    /\ \A d \in Days : WF_vars(LiveCollect(d))
    /\ WF_vars(LiveReturn)
    /\ WF_vars(LiveAssemble)

SpecLive == InitLive /\ [][NextLive]_vars /\ LiveFairness

\* ------------------------------ the automated run, one step per URL worker
\* automated_scraper's main from the URL list to the month's practice set, run
\* MaxRuns times; the pages' records are as insert_question reads them
InitAuto ==
    /\ EmptyStores
    /\ ledger = <<>>
    /\ uniq = FALSE /\ pages = [d \in Days |-> <<>>] /\ faults = 0
    /\ today \in Days
    /\ variant = "automated"
    /\ run = 1 /\ mpc = "start"
    /\ urlList = AscSeq(DaysOfMonth(MonthOf(today))) /\ toScrape = <<>>
    /\ wk = [d \in Days |-> [Submitted EXCEPT !.pc = "idle"]]
    /\ success_count = 0 /\ fetched = {}
    /\ rowsAtStart = [skills |-> 0, topics |-> 0, questions |-> 0, qindex |-> 0, ledger |-> 0]
    /\ call = [op |-> "none"]
    /\ ncalls = 0
    /\ pPage = <<>> /\ pOut = <<>> /\ pDone = TRUE
    /\ NoThreads
    /\ NoPureCall

\* main: the ledger filter, "if not new_urls: sys.exit(0)", the connection
\* (exit 1 without one), and the submission of the new URLs
AutoStart ==
    /\ mpc = "start"
    /\ \E connOk \in BOOLEAN :
        LET new == FilterNew(urlList, ledger)
        IN  /\ toScrape' = new
            /\ mpc' = IF new = <<>> \/ ~connOk THEN "done" ELSE "batch"
            /\ wk' = [d \in Days |->
                        IF connOk /\ \E i \in 1..Len(new) : new[i] = d
                        THEN Submitted ELSE [Submitted EXCEPT !.pc = "idle"]]
    /\ success_count' = 0
    /\ UNCHANGED <<storeVars, ledger>>
    /\ UNCHANGED <<envVars, faults, variant, run, urlList,
                   fetched, rowsAtStart, callVars, parseVars, threadVars, pureVars>>

\* one worker: process_url_safely from call to return. out is what the page and
\* the stores give: a question that is stored, a question that is not, no question
AutoWorker(d, out) ==
    /\ mpc = "batch" /\ wk[d].pc = "submitted"
    /\ LET sk == get_or_create_skill(skills, MonthOf(d))
           tp == get_or_create_topic(topics, d, sk.id)
           r == insert_question(questions, qindex, keyed_record(1), sk.id, tp.id, d, run,
                                today, "ok")
           skip == d > today
       IN  /\ skills' = IF skip THEN skills ELSE sk.tbl
           /\ topics' = IF skip THEN topics ELSE tp.tbl
           /\ questions' = IF ~skip /\ out = "stored" THEN r.qs ELSE questions
           /\ qindex' = IF ~skip /\ out = "stored" THEN r.qi ELSE qindex
           /\ ledger' = IF ~skip /\ out # "nothing"
                        THEN mark_url_as_processed(ledger, UrlOf(d)) ELSE ledger
           /\ wk' = [wk EXCEPT ![d] = returned(@, ~skip /\ out = "stored")]
    /\ UNCHANGED <<practice_sets, psq, mpc, success_count>>
    /\ RunFrame

\* the scheduled job runs again
AutoNextRun ==
    /\ mpc = "done" /\ run < MaxRuns
    /\ run' = run + 1
    /\ mpc' = "start"
    /\ UNCHANGED <<storeVars, ledger, wk, success_count, toScrape>>
    /\ UNCHANGED <<envVars, faults, variant, urlList,
                   fetched, rowsAtStart, callVars, parseVars, threadVars, pureVars>>

NextAuto ==
    \/ AutoStart
    \/ \E d \in Days, out \in {"stored", "failed", "nothing"} : AutoWorker(d, out)
    \/ \E d \in Days : LiveCollect(d)
    \/ LiveReturn
    \/ LiveAssemble
    \/ AutoNextRun

SpecAuto == InitAuto /\ [][NextAuto]_vars

\* --------------------- question threads sharing db_utils' module-level connection
NumThreads == 3
MaxConns == 3

Threads == 1..NumThreads

\* everything but the connections and the threads is at rest
AtRest ==
    /\ EmptyStores
    /\ ledger = <<>>
    /\ IdleRun
    /\ today = 1
    /\ call = [op |-> "none"]
    /\ ncalls = 0
    /\ pPage = <<>> /\ pOut = <<>> /\ pDone = TRUE
    /\ NoPureCall

\* conns[c] is what connection object c answers to is_connected()
is_connected(cs, c) == c # None /\ cs[c]

\* connection.close()
close(cs, c) == [cs EXCEPT ![c] = FALSE]

\* get_connection as the threads see it: the global object if it is connected, else
\* a new object from create_mysql_connection, which becomes the global one
shared_get_connection(g, cs, ok) ==
    IF is_connected(cs, g) THEN [conn |-> g, g |-> g, cs |-> cs]
    ELSE IF ok /\ Len(cs) < MaxConns
         THEN [conn |-> Len(cs) + 1, g |-> Len(cs) + 1, cs |-> Append(cs, TRUE)]
         ELSE [conn |-> None, g |-> None, cs |-> cs]

\* close_connections(connection): the given object, then the global one
close_connections(g, cs, c) ==
    LET c1 == IF is_connected(cs, c) THEN close(cs, c) ELSE cs
    IN  IF is_connected(c1, g) THEN [g |-> None, cs |-> close(c1, g)]
        ELSE [g |-> g, cs |-> c1]

\* the thread starts after translate_question_data
QThread == [pc |-> "get_connection", conn |-> None, retry_count |-> 0, ok |-> FALSE]

\* the batch obtained the first connection before the pool was opened
InitConn ==
    /\ AtRest
    /\ mysql_connection = 1
    /\ conns = <<TRUE>>
    /\ qw = [t \in Threads |-> QThread]
    /\ mk = <<>>

ConnFrame == UNCHANGED <<storeVars, ledger, envVars, faults, runVars, callVars, parseVars,
                         pureVars, mk>>

\* retry_count += 1; return (False, None) at max_retries, else the next turn
next_turn(w) ==
    IF w.retry_count + 1 >= max_retries
    THEN [w EXCEPT !.pc = "done", !.retry_count = @ + 1, !.conn = None]
    ELSE [w EXCEPT !.pc = "get_connection", !.retry_count = @ + 1, !.conn = None]

\* conn = get_connection()
QGetConnection(t) ==
    /\ qw[t].pc = "get_connection"
    /\ \E ok \in BOOLEAN :
        LET r == shared_get_connection(mysql_connection, conns, ok)
        IN  /\ mysql_connection' = r.g
            /\ conns' = r.cs
            /\ qw' = [qw EXCEPT ![t] = IF r.conn = None THEN next_turn(@)
                                       ELSE [@ EXCEPT !.pc = "insert", !.conn = r.conn]]
    /\ ConnFrame

\* insert_question(conn, ...): execute and commit on the thread's connection object;
\* on a closed object the connector raises and insert_question returns None
QInsert(t) ==
    /\ qw[t].pc = "insert"
    /\ \E ok \in BOOLEAN :
        qw' = [qw EXCEPT ![t] = [@ EXCEPT !.pc = "finally",
                                           !.ok = ok /\ is_connected(conns, qw[t].conn)]]
    /\ UNCHANGED <<mysql_connection, conns>>
    /\ ConnFrame

\* finally: close_connections(conn); then return (True, id) or the next turn
QFinally(t) ==
    /\ qw[t].pc = "finally"
    /\ LET r == close_connections(mysql_connection, conns, qw[t].conn)
       IN  /\ mysql_connection' = r.g
           /\ conns' = r.cs
    /\ qw' = [qw EXCEPT ![t] = IF @.ok THEN [@ EXCEPT !.pc = "done", !.conn = None]
                               ELSE next_turn(@)]
    /\ ConnFrame

NextConn ==
    \/ \E t \in Threads : QGetConnection(t)
    \/ \E t \in Threads : QInsert(t)
    \/ \E t \in Threads : QFinally(t)

SpecConn == InitConn /\ [][NextConn]_vars

\* ------------------------- two concurrent callers of mark_url_as_processed
\* Two workers, or two runs that overlap, each calling mark_url_as_processed;
\* the count and the insert are two requests to the document store.
NumCallers == 2

Callers == 1..NumCallers

InitMark ==
    /\ AtRest
    /\ mysql_connection = None /\ conns = <<>> /\ qw = <<>>
    /\ mk = [i \in Callers |-> [pc |-> "idle", url |-> generated_url(1), count |-> 0, calls |-> 0]]

MarkFrame == UNCHANGED <<storeVars, envVars, faults, runVars, call, parseVars, pureVars,
                         mysql_connection, conns, qw>>

\* mark_url_as_processed(url) is called
MarkCall(i, u) ==
    /\ mk[i].pc = "idle"
    /\ ncalls < MaxCalls
    /\ ncalls' = ncalls + 1
    /\ mk' = [mk EXCEPT ![i] = [@ EXCEPT !.pc = "count_documents", !.url = u, !.calls = @ + 1]]
    /\ UNCHANGED ledger
    /\ MarkFrame

\* scraped_urls_collection.count_documents({"url": url})
MarkCount(i) ==
    /\ mk[i].pc = "count_documents"
    /\ mk' = [mk EXCEPT ![i] = [@ EXCEPT !.pc = "insert_one",
                                         !.count = count_documents(ledger, mk[i].url)]]
    /\ UNCHANGED <<ledger, ncalls>>
    /\ MarkFrame

\* "if ... == 0: scraped_urls_collection.insert_one(...)", and the return
MarkInsert(i) ==
    /\ mk[i].pc = "insert_one"
    /\ ledger' = IF mk[i].count = 0 THEN Append(ledger, mk[i].url) ELSE ledger
    /\ mk' = [mk EXCEPT ![i].pc = "idle"]
    /\ UNCHANGED ncalls
    /\ MarkFrame

NextMark ==
    \/ \E i \in Callers, u \in URLs : MarkCall(i, u)
    \/ \E i \in Callers : MarkCount(i)
    \/ \E i \in Callers : MarkInsert(i)

SpecMark == InitMark /\ [][NextMark]_vars

\* =================================================================== claims
Finished(d) == wk[d].pc \in {"ret", "done"}

\* C1: right after mark_url_as_processed(x), x is reported as scraped, every other
\* URL is reported exactly as before the call, and the ledger holds one entry for
\* x, also when x had been marked before.
C1_MarkThenScraped ==
    call.op = "mark" =>
        /\ is_url_already_scraped(ledger, call.url)
        /\ count_documents(ledger, call.url) = 1
        /\ \A y \in URLs \ {call.url} :
               is_url_already_scraped(ledger, y) = is_url_already_scraped(call.pre, y)

\* a second mark of the same URL, with another URL still unmarked
C1_Witness ==
    /\ call.op = "mark"
    /\ is_url_already_scraped(call.pre, call.url)
    /\ \E y \in URLs : ~is_url_already_scraped(ledger, y)

AssemblyOps == {"daily", "monthly", "weekly", "range"}

\* C7: an assembly whose scope resolves to no question id returns failure and adds
\* no practice_sets row and no practice_set_questions row; no practice set with
\* zero questions exists.
C7_NoEmptyPracticeSet ==
    /\ (call.op \in AssemblyOps /\ call.nq = 0) =>
           /\ ~call.ok
           /\ Len(practice_sets) = call.prePs
           /\ Len(psq) = call.prePsq
    /\ \A i \in 1..Len(practice_sets) : practice_sets[i].total_questions > 0

\* a weekly assembly that finds nothing although the index holds questions
C7_Witness ==
    /\ call.op = "weekly"
    /\ call.nq = 0
    /\ qindex # <<>>

\* C2: in a run that follows a complete run over the same list, nothing is
\* submitted or fetched and no Question, index, Skill, Topic or ledger row is added
\* (stated for behaviours in which no external call failed).
C2_SecondRunIdle ==
    (run >= 2 /\ mpc # "start" /\ faults = 0) =>
        /\ toScrape = <<>>
        /\ fetched = {}
        /\ RowCounts = rowsAtStart

\* C3: once an identifier whose fetch returned no question block is finished, the
\* ledger holds its URL and it is not counted as a success (no external failure).
C3_EmptyFetchMarked ==
    \A d \in Days :
        (faults = 0 /\ Finished(d) /\ d \in fetched /\ wk[d].qs = <<>>) =>
            /\ is_url_already_scraped(ledger, wk[d].url)
            /\ ~wk[d].result

\* C4: there is at most one skills row per name, and the get_or_create_skill calls
\* of the workers of one month all returned the same id (no external failure).
C4_OneSkillPerName ==
    /\ \A m \in Months : Cardinality(skill_rows(skills, m)) <= 1
    /\ faults = 0 =>
           \A d, e \in Days : MonthOf(d) = MonthOf(e) =>
               \A a \in wk[d].rets, b \in wk[e].rets : a = b

QuestionsOf(d, rn) == {i \in 1..Len(questions) : questions[i].day = d /\ questions[i].run = rn}

\* C5: when the page of an identifier holds exactly one well-formed block and no
\* external call fails, the finished identifier has one Question row, one index
\* entry with that question id, and a ledger entry.
C5_OneBlockOneRow ==
    \A d \in Days :
        (faults = 0 /\ run = 1 /\ wk[d].pc = "done" /\ d \in fetched /\ Len(pages[d]) = 1) =>
            /\ Cardinality(QuestionsOf(d, 1)) = 1
            /\ \A i \in QuestionsOf(d, 1) :
                   Cardinality({j \in 1..Len(qindex) : qindex[j].question_id = i}) = 1
            /\ is_url_already_scraped(ledger, wk[d].url)

\* C6: every record the parser returns has a correct-option index that is the index
\* of one of its options.
C6_MarkerResolves ==
    pDone => \A k \in 1..Len(pOut) :
        /\ pOut[k].correct_option_index >= 0
        /\ pOut[k].correct_option_index < pOut[k].options

\* C8: after a run that fetched every day of month m, each page holding q >= 1
\* well-formed blocks, with no external failure, the first monthly assembly for m
\* leaves one practice set with total_questions = d*q and d*q link rows.
C8_MonthlyTotal ==
    (/\ call.op = "monthly" /\ call.prePs = 0 /\ faults = 0 /\ run = 1
     /\ \A d \in DaysOfMonth(call.m) : d \in fetched /\ Len(pages[d]) = MaxQ) =>
        /\ Len(practice_sets) = 1
        /\ practice_sets[1].total_questions = Cardinality(DaysOfMonth(call.m)) * MaxQ
        /\ Len(psq) = Cardinality(DaysOfMonth(call.m)) * MaxQ

BatchStarted == \E d \in Days : wk[d].pc # "idle"

\* C9: when the batch has returned, every submitted identifier has reached its
\* terminal outcome, also when processing an identifier raised an exception, and
\* the identifiers that raised are not among the counted successes.
C9_BatchSurvivesException ==
    (mpc = "done" /\ BatchStarted) =>
        \A d \in Days : Queued(d) =>
            /\ wk[d].pc = "done"
            /\ wk[d].exc => ~wk[d].result

\* an identifier raised, and an identifier after it in the list was still fetched
C9_Witness ==
    /\ mpc = "done"
    /\ \E d, e \in Days :
        /\ Queued(d) /\ Queued(e) /\ Pos(d) < Pos(e)
        /\ wk[d].exc
        /\ e \in fetched /\ wk[e].pc = "done"

\* C10: the count a batch returns is the number of submitted identifiers for which
\* the call persisted a Question row; it lies between 0 and the length of the list.
C10_CountIsPersisted ==
    (mpc = "done" /\ BatchStarted /\ variant # "main") =>
        /\ success_count = Cardinality({d \in Days : Queued(d) /\ QuestionsOf(d, run) # {}})
        /\ success_count >= 0
        /\ success_count <= Len(toScrape)

\* a batch over two identifiers has returned, one page had a question block
C10_Witness ==
    /\ mpc = "done" /\ BatchStarted /\ variant # "main"
    /\ Len(toScrape) >= 2
    /\ \E d \in Days : Queued(d) /\ d \in fetched /\ wk[d].qs # <<>> /\ wk[d].pc = "done"

\* C11: an identifier whose fetch returned questions is marked only when none of its
\* questions is still pending, and once it is finished without an external failure
\* it is marked, however many questions succeeded.
C11_MarkedAfterAllAttempted ==
    \A d \in Days :
        (wk[d].qs # <<>> /\ d \in fetched) =>
            /\ (run = 1 /\ is_url_already_scraped(ledger, wk[d].url)) => wk[d].pend = {}
            /\ (faults = 0 /\ Finished(d)) => is_url_already_scraped(ledger, wk[d].url)

HasLedgerEntry(d) == \E i \in 1..Len(ledger) : ledger[i].day = d

\* C12: a worker that is about to issue the GET for an identifier works on an
\* identifier that has no ledger entry.
C12_NoFetchOfProcessed ==
    \A d \in Days : wk[d].pc = "fetch" => ~HasLedgerEntry(d)

\* C18 as stated: once a ledger check has failed in a run, no identifier is fetched
\* in that run: none at all when the run's filter failed, none from the failing
\* identifier on when the check is made per identifier.
C18_NoFetchInFailedRun ==
    \A d \in Days : wk[d].lfail =>
        \A e \in Days : (~Queued(d) \/ (Queued(e) /\ Pos(d) <= Pos(e))) => e \notin fetched

\* C18: a failed ledger check is never taken for "not scraped": the identifier whose
\* check failed is not fetched in that run, and when the check fails in the filter
\* of custom_scraper, date_range_scraper or automated_scraper nothing is fetched.
C18_LedgerFailurePropagates ==
    \A d \in Days : wk[d].lfail =>
        /\ d \notin fetched
        /\ variant # "main" => fetched = {}

\* a per-identifier check failed, the run went on and finished
C18_Witness ==
    /\ mpc = "done"
    /\ \E d \in Days : wk[d].lfail /\ Queued(d) /\ wk[d].exc

\* C13: every URL string in the ledger is the canonical form without a trailing
\* slash, and no calendar date has more than one ledger entry.
C13_LedgerCanonical ==
    /\ \A i \in 1..Len(ledger) : ~ledger[i].slash
    /\ \A d \in Days : Cardinality({i \in 1..Len(ledger) : ledger[i].day = d}) <= 1

DoneOp(op) == fnArgs.op = op /\ fnRes.done

\* C14 as stated: for every year and month, generate_url returns one URL per
\* calendar day in ascending order and extract_date_from_url gives back the date.
C14_MonthRoundTripAnyYear ==
    (DoneOp("generate_url") /\ fnArgs.day = None) =>
        /\ Len(fnRes.out.urls) = CalendarDays(fnArgs.year, fnArgs.month)
        /\ \A k \in 1..Len(fnRes.out.urls) :
               extract_date_from_url(fnRes.out.urls[k]) =
                   [ok |-> TRUE, year |-> fnArgs.year, month |-> fnArgs.month, day |-> k]

\* C14: for every year from 1000 to 9999 and every month, generate_url returns one
\* URL per calendar day in ascending order and extract_date_from_url gives back the
\* same year, month and day.
C14_MonthRoundTrip ==
    (DoneOp("generate_url") /\ fnArgs.day = None /\ fnArgs.year \in 1000..9999) =>
        /\ Len(fnRes.out.urls) = CalendarDays(fnArgs.year, fnArgs.month)
        /\ \A k \in 1..Len(fnRes.out.urls) :
               extract_date_from_url(fnRes.out.urls[k]) =
                   [ok |-> TRUE, year |-> fnArgs.year, month |-> fnArgs.month, day |-> k]

\* February of a century year that is no leap year
C14_Witness ==
    /\ DoneOp("generate_url") /\ fnArgs.day = None
    /\ fnArgs.year = 1900 /\ fnArgs.month = 2
    /\ Len(fnRes.out.urls) = 28

RangeAsClaimed(start, end) ==
    /\ fnRes.out.ret = "list"
    /\ Len(fnRes.out.urls) = end - start + 1
    /\ \A k \in 1..Len(fnRes.out.urls) : fnRes.out.urls[k].date = start + k - 1

\* C15 as stated: for all dates start <= end the range function returns
\* (end - start).days + 1 URLs, ascending, from start to end.
C15_RangeInclusiveAnyEnd ==
    (DoneOp("range") /\ fnArgs.start <= fnArgs.end) => RangeAsClaimed(fnArgs.start, fnArgs.end)

\* C15: for all dates start <= end < date.max the range function returns
\* (end - start).days + 1 URLs in ascending date order, the first for start and the
\* last for end, no date repeated or skipped.
C15_RangeInclusive ==
    (DoneOp("range") /\ fnArgs.start <= fnArgs.end /\ fnArgs.end < DATE_MAX) =>
        RangeAsClaimed(fnArgs.start, fnArgs.end)

\* a range of more than one day
C15_Witness ==
    /\ DoneOp("range") /\ fnArgs.start < fnArgs.end /\ fnArgs.end < DATE_MAX
    /\ Len(fnRes.out.urls) >= 2

\* C16 as stated: for start > end the derivation of the range's identifiers itself
\* fails with an invalid-range outcome instead of returning a sequence.
C16_RangeFunctionRejects ==
    (DoneOp("range") /\ fnArgs.start > fnArgs.end) => fnRes.out.ret # "list"

\* C16: for start > end date_range_scraper's main ends with the invalid-range exit
\* before any identifier is derived, so nothing is submitted or fetched.
C16_MainRejectsInvalidRange ==
    (DoneOp("range_main") /\ fnArgs.start > fnArgs.end) =>
        /\ fnRes.out.ret = "exit_invalid_range"
        /\ fnRes.out.urls = <<>>

\* an inverted range whose two ends are both not after today
C16_Witness ==
    /\ DoneOp("range_main") /\ fnArgs.start > fnArgs.end /\ fnArgs.start <= fnArgs.today
    /\ fnRes.out.ret = "exit_invalid_range"

\* C19: translate_to_gujarati ends after at most `retries` calls of the service,
\* whatever the service does, and returns the original text when no call gave a
\* translation.
C19_TranslateBounded ==
    DoneOp("translate") =>
        /\ fnRes.out.ret # "running"
        /\ fnRes.out.calls <= fnArgs.retries
        /\ (\A k \in 1..MaxServiceCalls : fnArgs.script[k] # "text") => fnRes.out.ret = "original"

\* C17: every index entry's question_id is the id of an existing questions row, a
\* call of insert_question whose relational insert failed adds no index entry, and
\* no question has more than one index entry.
C17_IndexEntryHasQuestion ==
    /\ \A i \in 1..Len(qindex) : qindex[i].question_id \in 1..Len(questions)
    /\ \A i, j \in 1..Len(qindex) : qindex[i].question_id = qindex[j].question_id => i = j
    /\ (call.op = "insert" /\ call.out = "sqlerr") =>
           /\ Len(questions) = call.preQ
           /\ Len(qindex) = call.preQi

\* the relational insert fails when the index already has an entry
C17_Witness ==
    /\ call.op = "insert" /\ call.out = "sqlerr" /\ call.ret = "none"
    /\ qindex # <<>>

SetCreated == call.op \in AssemblyOps /\ Len(practice_sets) = call.prePs + 1

\* C20: when the link insert fails for some question ids, every other id is still
\* linked, the practice_sets row and the earlier links stay, the operation
\* reports success only if no insert failed, and no set has more link rows than
\* its total_questions.
C20_PartialLinkage ==
    [][/\ SubSeq(practice_sets', 1, Len(practice_sets)) = practice_sets
       /\ SubSeq(psq', 1, Len(psq)) = psq
       /\ SetCreated' =>
              /\ practice_sets'[Len(practice_sets')].total_questions = call'.nq
              /\ \A k \in 1..call'.nq :
                     k \notin call'.failed <=>
                         \E i \in (Len(psq) + 1)..Len(psq') :
                             psq'[i] = [practice_set_id |-> Len(practice_sets'),
                                        question_id |-> call'.qids[k]]
              /\ Len(psq') - Len(psq) = call'.nq - Cardinality(call'.failed)
              /\ call'.ok <=> call'.failed = {}
       /\ \A s \in 1..Len(practice_sets') :
              Cardinality({i \in 1..Len(psq') : psq'[i].practice_set_id = s})
                  <= practice_sets'[s].total_questions]_vars

\* the first link insert failed and a later one was written
C20_Witness ==
    /\ SetCreated
    /\ 1 \in call.failed
    /\ \E k \in 2..call.nq : k \notin call.failed
    /\ Len(psq) > call.prePsq

\* C21: when the INSERT of get_or_create_skill fails only because another caller
\* inserted the same name first, the call does not return None: with no store
\* failure, no call of get_or_create_skill returns None.
C21_RaceResolvedByReread ==
    \A d \in Days : faults = 0 => None \notin wk[d].rets

\* the ledger entries written since the run started
MarkedInRun == {ledger[i] : i \in (rowsAtStart.ledger + 1)..Len(ledger)}

\* C22: in every entry point, the run in which the fetch of an identifier failed
\* at the network level does not mark that identifier processed.
C22_NetworkFailureNotMarked ==
    \A d \in Days : wk[d].netfail => wk[d].url \notin MarkedInRun

NewRows(k) == {i \in (call.preQ + 1)..Len(questions) : questions[i].correct_answer = k}
NewEntries(k) == {i \in (call.preQi + 1)..Len(qindex) : qindex[i].correct_answer_index = k}

C25_LedgerOnlyGrows ==
    [][/\ Len(ledger') >= Len(ledger)
       /\ SubSeq(ledger', 1, Len(ledger)) = ledger
       /\ \A u \in URLs : is_url_already_scraped(ledger, u) => is_url_already_scraped(ledger', u)]_vars

\* a second run has added an entry to a ledger that already had one
C25_Witness ==
    /\ run = 2
    /\ rowsAtStart.ledger > 0
    /\ Len(ledger) > rowsAtStart.ledger

\* C26: a topics row exists only for a day whose page has a question, and a skills
\* row only for a month with such a day: processing an identifier that yields no
\* question creates neither.
C26_SkillTopicOnlyWithQuestion ==
    /\ \A i \in 1..Len(topics) : pages[topics[i].name] # <<>>
    /\ \A i \in 1..Len(skills) : \E d \in Days : MonthOf(d) = skills[i].name /\ pages[d] # <<>>

\* the question ids linked to practice set s, in link order
LinkedTo(links, s) ==
    LET T(l) == l.practice_set_id = s IN Ids(SelectSeq(links, T))

FirstNot(script, bad, n) ==
    LET S == {i \in 1..n : script[i] \notin bad}
    IN  IF S = {} THEN 0 ELSE Min(S)

\* C28: get_connection returns the existing global connection exactly when there
\* is one and its liveness check passes; otherwise it discards the global, makes
\* at most 3 creation attempts, returns the first connection created or None after
\* the third failure, and never raises.
C28_GetConnectionBounded ==
    DoneOp("get_connection") =>
        LET o == fnRes.out
            p == FirstNot(fnArgs.script, {"none", "raise"}, conn_retries)
        IN  /\ o.ret \in {"existing", "new", "none"}
            /\ o.ret = "existing" <=> (fnArgs.has /\ fnArgs.alive = "yes")
            /\ o.ret = "existing" => o.attempts = 0 /\ ~o.discarded
            /\ o.ret # "existing" =>
                   /\ o.discarded = fnArgs.has
                   /\ o.attempts <= conn_retries
                   /\ IF p = 0 THEN o.ret = "none" /\ o.attempts = conn_retries
                      ELSE o.ret = "new" /\ o.attempts = p

\* a dead global connection, two failed creations (one of them an exception), then
\* a connection
C28_Witness ==
    /\ DoneOp("get_connection")
    /\ fnArgs.has /\ fnArgs.alive = "no"
    /\ fnArgs.script[1] = "raise" /\ fnArgs.script[2] = "none" /\ fnArgs.script[3] = "conn"
    /\ fnRes.out.ret = "new" /\ fnRes.out.attempts = 3

\* C29: process_url makes at most 1 + max_retries attempts, one more only after an
\* exception, and then returns False; it never raises; a URL whose date cannot be
\* extracted returns False in the first attempt with no fetch and no ledger entry.
C29_ProcessUrlBounded ==
    DoneOp("process_url") =>
        LET o == fnRes.out
            p == FirstNot(fnArgs.script, {"raise_unfetched", "raise_fetched"}, 1 + max_retries)
        IN  /\ o.ret \in BOOLEAN
            /\ o.attempts <= 1 + max_retries
            /\ ~fnArgs.dateOk =>
                   ~o.ret /\ o.attempts = 1 /\ o.fetches = 0 /\ o.marks = 0
            /\ fnArgs.dateOk =>
                   IF p = 0 THEN ~o.ret /\ o.attempts = 1 + max_retries /\ o.marks = 0
                   ELSE o.attempts = p /\ o.ret = (fnArgs.script[p] = "true")

\* every attempt raises
C29_Witness ==
    /\ DoneOp("process_url") /\ fnArgs.dateOk
    /\ \A k \in 1..AttemptScriptLen : fnArgs.script[k] = "raise_fetched"
    /\ fnRes.out.attempts = 1 + max_retries /\ ~fnRes.out.ret

\* C30 as stated, the part on the two uses: a func that reports failure by its
\* return value (get_connection: None, create_practice_set_for_month: False) is
\* called again by retry_with_backoff.
C30_FailedAttemptRetried ==
    (/\ DoneOp("retry_with_backoff") /\ fnArgs.max_retries = 3
     /\ fnArgs.script[1] = "fail_value") => fnRes.out.calls >= 2

\* C30: retry_with_backoff calls func at most max_retries times, returns the
\* result of the first call that does not raise, and None after max_retries
\* exceptions; a func that never raises is called once and its result, failure
\* value included, is returned without a retry.
C30_RetryWithBackoff ==
    DoneOp("retry_with_backoff") =>
        LET o == fnRes.out
            p == FirstNot(fnArgs.script, {"raise"}, fnArgs.max_retries)
        IN  /\ o.calls <= fnArgs.max_retries
            /\ IF p = 0 THEN o.ret = "none" /\ o.calls = fnArgs.max_retries
               ELSE o.ret = fnArgs.script[p] /\ o.calls = p
            /\ ((\A k \in 1..MaxServiceCalls : fnArgs.script[k] # "raise") /\ fnArgs.max_retries > 0)
                   => o.calls = 1 /\ o.ret = fnArgs.script[1]

\* the first call returns the failure value and is not repeated
C30_Witness ==
    /\ DoneOp("retry_with_backoff") /\ fnArgs.max_retries = 3
    /\ fnArgs.script[1] = "fail_value"
    /\ fnRes.out.ret = "fail_value" /\ fnRes.out.calls = 1

\* C31: the questions of one page are processed with the skill id and topic id
\* resolved before the first of them: every questions row and index entry written
\* for the page carries these two ids, which are the rows of the page's month and
\* day, and processing the questions adds no skills or topics row.
C31_QuestionsCarryResolvedIds ==
    call.op = "questions" =>
        /\ call.skill_id \in 1..Len(skills)
        /\ skills[call.skill_id].name = MonthOf(call.day)
        /\ call.topic_id \in 1..Len(topics)
        /\ topics[call.topic_id] = [name |-> call.day, skill_id |-> call.skill_id]
        /\ \A i \in (call.preQ + 1)..Len(questions) :
               questions[i].skill_id = call.skill_id /\ questions[i].topic_id = call.topic_id
        /\ \A i \in (call.preQi + 1)..Len(qindex) :
               qindex[i].skill_id = call.skill_id /\ qindex[i].topic_id = call.topic_id
        /\ Len(skills) = call.nskills /\ Len(topics) = call.ntopics

\* both questions of a page of the second day are stored under the second topic
C31_Witness ==
    /\ call.op = "questions"
    /\ call.topic_id = 2
    /\ Len(questions) - call.preQ = PageLen
    /\ Len(qindex) - call.preQi = PageLen

\* C32: the correct-answer index has one encoding from the parser to the quiz file:
\* the index save_quiz_to_file decodes from the marker insert_question writes for
\* the parser's option index is that same index.
C32_OneIndexEncoding ==
    DoneOp("save_quiz") => fnRes.out.correct_index = fnRes.out.index

\* C33: when every external call returns or raises, every URL submitted to the batch
\* eventually has one final result that no later step changes, and the batch returns
\* the number of URLs whose result is success.
C33_BatchTerminates ==
    /\ \A d \in Days : \E res \in BOOLEAN : <>[](wk[d].pc = "done" /\ wk[d].result = res)
    /\ <>[](mpc = "done" /\ success_count = Cardinality({d \in Days : wk[d].result}))

\* the batch has returned after one URL used up its retries and another succeeded
C33_Witness ==
    /\ mpc = "done"
    /\ \E d \in Days : ~wk[d].result /\ wk[d].retry_count = max_retries
    /\ \E d \in Days : wk[d].result /\ wk[d].q_retry > 0

\* C34: while a question thread is between get_connection and the end of its insert,
\* the connection object it holds is connected: no other thread has closed it.
C34_ConnectionNotClosedByOthers ==
    \A t \in Threads : qw[t].pc = "insert" => is_connected(conns, qw[t].conn)

\* C35: whenever a call of mark_url_as_processed(x) has returned, whatever other
\* call it was interleaved with, the ledger holds exactly one entry for x.
C35_OneEntryPerUrl ==
    \A i \in Callers : (mk[i].pc = "idle" /\ mk[i].calls > 0) =>
        count_documents(ledger, mk[i].url) = 1

C37_FutureDateUntouched ==
    variant = "automated" =>
        \A d \in Days : d > today =>
            /\ d \notin fetched
            /\ \A i \in 1..Len(topics) : topics[i].name # d
            /\ ~HasLedgerEntry(d)
            /\ wk[d].pc \in {"idle", "start", "ret", "done"}
            /\ ~wk[d].result

\* the month's batch is over: today's URL was fetched, tomorrow's worker has returned
C37_Witness ==
    /\ variant = "automated"
    /\ mpc = "done"
    /\ \E d \in Days : d > today /\ wk[d].pc = "done"
    /\ \E d \in Days : d <= today /\ d \in fetched /\ HasLedgerEntry(d)

\* C38: in the automated run the month's assembly is entered, and a practice set is
\* created, only by a step taken when every submitted URL worker is finished, at
\* least one URL was submitted and the batch's success count is above zero.
C38_AssemblyAfterSuccessfulBatch ==
    [][(mpc' = "assemble" \/ practice_sets' # practice_sets) =>
          /\ \A d \in Days : wk[d].pc \in {"idle", "done"}
          /\ toScrape # <<>>
          /\ success_count > 0]_vars

\* the first run assembled the month; the second run, with no success, created nothing
C38_Witness ==
    /\ run = MaxRuns /\ mpc = "done"
    /\ success_count = 0
    /\ Len(practice_sets) = 1

====
